---- MODULE Spec2Model ----
(***************************************************************************)
(* Wave Function Collapse map generator (tools/map_generator).             *)
(*                                                                         *)
(* The model follows wfc_generator.py: the tile catalog and its adjacency  *)
(* table (Tile, WFCGenerator.__init__, _compute_adjacency_rules), the      *)
(* solver (generate, _find_min_entropy_cell, _collapse_cell, _propagate)   *)
(* and the tails of the two command-line pipelines (wfc_generator.main,    *)
(* generate_map.main).                                                     *)
(*                                                                         *)
(* Python lists are sequences: possibilities[y][x] of the code is          *)
(* possibilities[y+1][x+1] here; coordinates stay 0-based as in the code.  *)
(*                                                                         *)
(* random: the module-level generator of Python's random.  A generator     *)
(* seeded by random.seed(s) is a deterministic stream (a small congruential*)
(* generator stands for the Mersenne Twister); a generator never seeded by *)
(* the program was seeded by the interpreter from the operating system, so *)
(* each of its draws is any value.  A draw r in [0,1) is the integer v with*)
(* r = v / RndDen.                                                         *)
(***************************************************************************)
EXTENDS Integers, Sequences, FiniteSets, TLC

VARIABLES
    tiles,            \* self.tiles: the catalog, a list of Tile
    tile_by_id,       \* self.tile_by_id
    adjacency_rules,  \* self.adjacency_rules
    width, height,    \* arguments of generate
    seed,             \* argument of generate (NoSeed: None)
    rng,              \* state of the module-level generator of random
    possibilities,    \* generate's local: list of rows of sets of tile ids
    collapsed,        \* generate's local: list of rows of booleans
    iterations,       \* generate's local
    stack,            \* _propagate's local: list of (x, y)
    cur,              \* generate's locals (x, y) of the cell just collapsed
    pc,               \* position in main / generate / _propagate
    returned,         \* "none" (still running), "grid", "None" or
                      \* "raised" (an exception left generate)
    grid,             \* the list of rows generate returns
    message,          \* what generate printed on failure, or the name of
                      \* the exception that was raised
    failed_at,        \* the cell of "Failed at cell (x, y)"
    empty_at,         \* _propagate's (nx, ny) when it returned False
    exit_status,      \* the process's exit status (0 unless sys.exit(1))
    files,            \* the output files written by main
    run,              \* which call of generate this is (1 or 2)
    first,            \* outcome of the first call, kept for comparison
    record,           \* whether the selections are logged in trace
    trace,            \* history: the (cell, tile) selections of this call
    other_run,        \* position of another call of generate in the same
                      \* process: "idle", "running" or "done"
    tileset_info,     \* TMXGenerator's self.tileset_info: data["tileset"]
    tmx,              \* the map document generate_tmx wrote, or NoTmx
    sample_args,      \* arguments of generate_spawn_points or
                      \* generate_objective_points
    spawns,           \* their local list of accepted points
    attempts          \* their local counter of draws

vars == <<tiles, tile_by_id, adjacency_rules, width, height, seed, rng,
          possibilities, collapsed, iterations, stack, cur, pc, returned,
          grid, message, failed_at, empty_at, exit_status, files, run,
          first, record, trace, other_run, tileset_info, tmx, sample_args,
          spawns, attempts>>

----------------------------------------------------------------------------
(* Bounds of the model *)

\* Grids of at most MaxCells cells: every width x height with
\* width * height <= MaxCells.
MaxCells == 4
\* Explicit seeds 0..MaxSeed.
MaxSeed == 3
\* Resolution of a draw: random() is one of 0/RndDen .. (RndDen-1)/RndDen.
RndDen == 3
\* Number of states of the seeded generator.
RngMod == 16
\* Largest catalog drawn in the catalog-only specification.
MaxCatalogTiles == 2

\* seed: Optional[int] = None
NoSeed == -1

----------------------------------------------------------------------------
(* Tile catalog *)

Directions == {"north", "south", "east", "west"}

opposite == [north |-> "south", south |-> "north",
             east |-> "west", west |-> "east"]

\* Tile.__init__: weight defaults to 1 (the caller passes it here).
Tile(id, name, n, s, e, w, weight) ==
    [id |-> id, name |-> name,
     edges |-> [north |-> n, south |-> s, east |-> e, west |-> w],
     weight |-> weight]

\* Faulty variant: the same edge is compared on both tiles.
CanConnectSameEdge(tile, other, direction) ==
    tile.edges[direction] = other.edges[direction]

\* Tile.can_connect
CanConnect(tile, other, direction) ==
    LET my_edge == tile.edges[direction]
        their_edge == other.edges[opposite[direction]]
    IN my_edge = their_edge

\* Tile.can_connect raises KeyError: one of the two labels it reads is
\* missing.
ConnectRaises(tile, other_tile, direction) ==
    \/ direction \notin DOMAIN tile.edges
    \/ opposite[direction] \notin DOMAIN other_tile.edges

\* _compute_adjacency_rules raises KeyError: some call of can_connect in its
\* loops over tile, direction and other_tile does.
ComputeRaises(ts) ==
    \E i \in 1..Len(ts) : \E direction \in Directions :
        \E j \in 1..Len(ts) : ConnectRaises(ts[i], ts[j], direction)

TileIds(ts) == {ts[i].id : i \in 1..Len(ts)}

\* {t.id: t for t in self.tiles}: a later tile with the same id wins.
TileById(ts) ==
    [tid \in TileIds(ts) |->
        ts[CHOOSE i \in 1..Len(ts) :
              /\ ts[i].id = tid
              /\ \A j \in (i+1)..Len(ts) : ts[j].id # tid]]

\* Faulty variant: records only the connections to tiles listed later.
ComputeAdjacencyRulesLaterOnly(ts) ==
    [tid \in TileIds(ts) |->
        LET k == CHOOSE i \in 1..Len(ts) :
                    /\ ts[i].id = tid
                    /\ \A j \in (i+1)..Len(ts) : ts[j].id # tid
        IN [direction \in Directions |->
              {ts[j].id : j \in {j \in k..Len(ts) :
                                    CanConnect(ts[k], ts[j], direction)}}]]

\* _compute_adjacency_rules.  rules[tile.id] is created afresh for every
\* tile of the list, so the entry of an id is the one of its last tile.
ComputeAdjacencyRules(ts) ==
    [tid \in TileIds(ts) |->
        LET k == CHOOSE i \in 1..Len(ts) :
                    /\ ts[i].id = tid
                    /\ \A j \in (i+1)..Len(ts) : ts[j].id # tid
        IN [direction \in Directions |->
              {ts[j].id : j \in {j \in 1..Len(ts) :
                                    CanConnect(ts[k], ts[j], direction)}}]]

----------------------------------------------------------------------------
(* The generator of random *)

Unseeded == [seeded |-> FALSE, state |-> 0]

\* random.seed(seed)
SeedRng(s) == [seeded |-> TRUE, state |-> s % RngMod]

RngNext(state) == (5 * state + 3) % RngMod

RECURSIVE RngAfter(_, _)
RngAfter(state, k) == IF k = 0 THEN state ELSE RngAfter(RngNext(state), k - 1)

\* The value of the draw made in generator state `state`.
RngOutput(state) == (state * RndDen) \div RngMod

RndVals == 0..(RndDen - 1)

\* The possible values of the next n draws.
DrawSeqs(g, n) ==
    IF g.seeded
    THEN {[i \in 1..n |-> RngOutput(RngAfter(g.state, i - 1))]}
    ELSE [1..n -> RndVals]

\* The generator after k draws.
Advance(g, k) ==
    IF g.seeded THEN [g EXCEPT !.state = RngAfter(g.state, k)] ELSE g

----------------------------------------------------------------------------
(* Solver helpers *)

At(m, y, x) == m[y + 1][x + 1]

\* Faulty variant: the row and the column index are exchanged.
SetCellTransposed(m, y, x, val) == [m EXCEPT ![x + 1][y + 1] = val]

\* m[y][x] = val
SetCell(m, y, x, val) == [m EXCEPT ![y + 1][x + 1] = val]

\* Iteration order of a set of small non-negative ints: ascending.
RECURSIVE SetToList(_)
SetToList(S) ==
    IF S = {} THEN <<>>
    ELSE LET m == CHOOSE a \in S : \A b \in S : a <= b
         IN <<m>> \o SetToList(S \ {m})

\* Faulty variant: any() instead of all().
IsFullyCollapsedAny(coll) ==
    \E y \in 1..Len(coll) : \E x \in 1..Len(coll[y]) : coll[y][x]

\* _is_fully_collapsed
IsFullyCollapsed(coll) ==
    \A y \in 1..Len(coll) : \A x \in 1..Len(coll[y]) : coll[y][x]

NoCell == <<>>

\* Faulty variant: noise in [0, 2) instead of [0, 0.1) (scaled by RndDen).
EntropyWithNoiseCoarse(entropy, v) == entropy * RndDen + 2 * v

\* entropy + random.random() * 0.1 for the draw v / RndDen, scaled by
\* 10 * RndDen.
EntropyWithNoise(entropy, v) == entropy * 10 * RndDen + v

\* Faulty variant: the scan runs column by column (x outer, y inner).
RECURSIVE FindMinScanColumnMajor(_, _, _, _, _)
FindMinScanColumnMajor(poss, coll, d, i, acc) ==
    LET h == Len(poss)
        w == Len(poss[1])
        y == (i - 1) % h
        x == (i - 1) \div h
    IN IF i > w * h THEN acc
       ELSE IF At(coll, y, x)
       THEN FindMinScanColumnMajor(poss, coll, d, i + 1, acc)
       ELSE LET entropy == Cardinality(At(poss, y, x))
                entropy_with_noise == EntropyWithNoise(entropy, d[acc.used + 1])
            IN IF entropy = 0
               THEN [acc EXCEPT !.min_cell = NoCell, !.stop = TRUE]
               ELSE IF acc.min_cell = NoCell
                       \/ entropy_with_noise < acc.min_entropy
               THEN FindMinScanColumnMajor(poss, coll, d, i + 1,
                        [min_entropy |-> entropy_with_noise,
                         min_cell |-> <<y, x>>,
                         used |-> acc.used + 1, stop |-> FALSE])
               ELSE FindMinScanColumnMajor(poss, coll, d, i + 1,
                        [acc EXCEPT !.used = acc.used + 1])

\* _find_min_entropy_cell, the scan from the i-th cell in row-major order.
\* acc: min_entropy (scaled by 10 * RndDen), min_cell (NoCell: None, with
\* min_entropy infinite), used (draws consumed), stop (returned None early).
RECURSIVE FindMinScan(_, _, _, _, _)
FindMinScan(poss, coll, d, i, acc) ==
    LET h == Len(poss)
        w == Len(poss[1])
        y == (i - 1) \div w
        x == (i - 1) % w
    IN IF i > w * h THEN acc
       ELSE IF At(coll, y, x) THEN FindMinScan(poss, coll, d, i + 1, acc)
       ELSE LET entropy == Cardinality(At(poss, y, x))
                entropy_with_noise == EntropyWithNoise(entropy, d[acc.used + 1])
            IN IF entropy = 0
               THEN [acc EXCEPT !.min_cell = NoCell, !.stop = TRUE]
               ELSE IF acc.min_cell = NoCell
                       \/ entropy_with_noise < acc.min_entropy
               THEN FindMinScan(poss, coll, d, i + 1,
                        [min_entropy |-> entropy_with_noise,
                         min_cell |-> <<y, x>>,
                         used |-> acc.used + 1, stop |-> FALSE])
               ELSE FindMinScan(poss, coll, d, i + 1,
                        [acc EXCEPT !.used = acc.used + 1])

\* _find_min_entropy_cell: [min_cell, used, ...] for the draws d.
FindMinEntropyCell(poss, coll, d) ==
    IF Len(poss) = 0
    THEN [min_entropy |-> 0, min_cell |-> NoCell, used |-> 0, stop |-> FALSE]
    ELSE FindMinScan(poss, coll, d, 1,
            [min_entropy |-> 0, min_cell |-> NoCell, used |-> 0,
             stop |-> FALSE])

RECURSIVE CumWeights(_, _)
CumWeights(weights, n) ==
    IF n = 0 THEN <<>>
    ELSE LET prev == CumWeights(weights, n - 1)
         IN Append(prev, (IF n = 1 THEN 0 ELSE prev[n - 1]) + weights[n])

\* random.choices(population, weights=weights, k=1)[0] for the draw v:
\* population[bisect(cum_weights, random() * total, 0, n - 1)].
Choices(population, weights, v) ==
    LET n == Len(population)
        cum == CumWeights(weights, n)
        total == cum[n]
        hits == {i \in 1..(n - 1) : cum[i] * RndDen > v * total}
    IN IF hits = {} THEN population[n]
       ELSE population[CHOOSE i \in hits : \A j \in hits : i <= j]

\* random.choices raises ValueError("Total of weights must be greater than
\* zero") before it draws.
ChoicesRaises(weights) ==
    LET n == Len(weights)
    IN CumWeights(weights, n)[n] <= 0

\* _collapse_cell raises ValueError.
CollapseRaises(byid, possible_tiles) ==
    LET ids == SetToList(possible_tiles)
        weights == [i \in 1..Len(ids) |-> byid[ids[i]].weight]
    IN ChoicesRaises(weights)

\* Faulty variant: the tile is chosen among all tiles of the catalog, not
\* among those still possible in the cell.
CollapseCellAnyTile(byid, possible_tiles, v) ==
    LET ids == SetToList(DOMAIN byid)
        ts == [i \in 1..Len(ids) |-> byid[ids[i]]]
        weights == [i \in 1..Len(ts) |-> ts[i].weight]
        chosen == Choices(ts, weights, v)
    IN chosen.id

\* _collapse_cell for the draw v.
CollapseCell(byid, possible_tiles, v) ==
    LET ids == SetToList(possible_tiles)
        ts == [i \in 1..Len(ids) |-> byid[ids[i]]]
        weights == [i \in 1..Len(ts) |-> ts[i].weight]
        chosen == Choices(ts, weights, v)
    IN chosen.id

\* Faulty variant: the east and west labels are exchanged.
NeighborsEastWestSwapped(cx, cy) ==
    << <<cx, cy - 1, "north">>, <<cx, cy + 1, "south">>,
       <<cx + 1, cy, "west">>, <<cx - 1, cy, "east">> >>

\* Faulty variant: the west neighbour is forgotten (the east one is listed twice).
NeighborsNoWest(cx, cy) ==
    << <<cx, cy - 1, "north">>, <<cx, cy + 1, "south">>,
       <<cx + 1, cy, "east">>, <<cx + 1, cy, "east">> >>

\* The four neighbours of (cx, cy), in the order the code visits them.
Neighbors(cx, cy) ==
    << <<cx, cy - 1, "north">>, <<cx, cy + 1, "south">>,
       <<cx + 1, cy, "east">>, <<cx - 1, cy, "west">> >>

\* Faulty variant: a neighbour whose set did not become empty keeps its old set
\* (the reduction is never stored).
VisitNeighborNoStore(st, nb, current_tiles, coll, rules, w, h) ==
    LET nx == nb[1]
        ny == nb[2]
        direction == nb[3]
    IN IF ~st.ok THEN st
       ELSE IF nx < 0 \/ nx >= w \/ ny < 0 \/ ny >= h THEN st
       ELSE IF At(coll, ny, nx) THEN st
       ELSE LET valid_for_neighbor ==
                    UNION {rules[t][direction] : t \in current_tiles}
                old_possibilities == At(st.possibilities, ny, nx)
                new_possibilities == old_possibilities \cap valid_for_neighbor
            IN IF Cardinality(new_possibilities) = 0
               THEN [st EXCEPT !.ok = FALSE, !.bad = <<nx, ny>>]
               ELSE st

\* Faulty variant: a smaller set is stored and pushed without the check for
\* an empty one.
VisitNeighborStoreEmpty(st, nb, current_tiles, coll, rules, w, h) ==
    LET nx == nb[1]
        ny == nb[2]
        direction == nb[3]
    IN IF ~st.ok THEN st
       ELSE IF nx < 0 \/ nx >= w \/ ny < 0 \/ ny >= h THEN st
       ELSE IF At(coll, ny, nx) THEN st
       ELSE LET valid_for_neighbor ==
                    UNION {rules[t][direction] : t \in current_tiles}
                old_possibilities == At(st.possibilities, ny, nx)
                new_possibilities == old_possibilities \cap valid_for_neighbor
            IN IF Cardinality(new_possibilities)
                     < Cardinality(old_possibilities)
               THEN [st EXCEPT
                        !.possibilities[ny + 1][nx + 1] = new_possibilities,
                        !.stack = Append(@, <<nx, ny>>)]
               ELSE st

\* Faulty variant: a reduced neighbour is stored but not pushed on the stack.
VisitNeighborNoPush(st, nb, current_tiles, coll, rules, w, h) ==
    LET nx == nb[1]
        ny == nb[2]
        direction == nb[3]
    IN IF ~st.ok THEN st
       ELSE IF nx < 0 \/ nx >= w \/ ny < 0 \/ ny >= h THEN st
       ELSE IF At(coll, ny, nx) THEN st
       ELSE LET valid_for_neighbor ==
                    UNION {rules[t][direction] : t \in current_tiles}
                old_possibilities == At(st.possibilities, ny, nx)
                new_possibilities == old_possibilities \cap valid_for_neighbor
            IN IF Cardinality(new_possibilities) = 0
               THEN [st EXCEPT !.ok = FALSE, !.bad = <<nx, ny>>]
               ELSE IF Cardinality(new_possibilities)
                          < Cardinality(old_possibilities)
               THEN [st EXCEPT
                        !.possibilities[ny + 1][nx + 1] = new_possibilities]
               ELSE st

\* Faulty variant: a neighbour that is already pending on the stack is
\* skipped instead of being reduced again.
VisitNeighborSkipPending(st, nb, current_tiles, coll, rules, w, h) ==
    LET nx == nb[1]
        ny == nb[2]
        direction == nb[3]
    IN IF ~st.ok THEN st
       ELSE IF nx < 0 \/ nx >= w \/ ny < 0 \/ ny >= h THEN st
       ELSE IF At(coll, ny, nx) THEN st
       ELSE IF \E i \in 1..Len(st.stack) : st.stack[i] = <<nx, ny>> THEN st
       ELSE LET valid_for_neighbor ==
                    UNION {rules[t][direction] : t \in current_tiles}
                old_possibilities == At(st.possibilities, ny, nx)
                new_possibilities == old_possibilities \cap valid_for_neighbor
            IN IF Cardinality(new_possibilities) = 0
               THEN [st EXCEPT !.ok = FALSE, !.bad = <<nx, ny>>]
               ELSE IF Cardinality(new_possibilities)
                          < Cardinality(old_possibilities)
               THEN [st EXCEPT
                        !.possibilities[ny + 1][nx + 1] = new_possibilities,
                        !.stack = Append(@, <<nx, ny>>)]
               ELSE st

\* Faulty variant: the neighbour keeps the tiles that every tile of the
\* current cell allows, instead of those that some tile allows.
VisitNeighborAllowedByAll(st, nb, current_tiles, coll, rules, w, h) ==
    LET nx == nb[1]
        ny == nb[2]
        direction == nb[3]
    IN IF ~st.ok THEN st
       ELSE IF nx < 0 \/ nx >= w \/ ny < 0 \/ ny >= h THEN st
       ELSE IF At(coll, ny, nx) THEN st
       ELSE LET valid_for_neighbor ==
                    {n \in UNION {rules[t][direction] : t \in current_tiles} :
                        \A t \in current_tiles : n \in rules[t][direction]}
                old_possibilities == At(st.possibilities, ny, nx)
                new_possibilities == old_possibilities \cap valid_for_neighbor
            IN IF Cardinality(new_possibilities) = 0
               THEN [st EXCEPT !.ok = FALSE, !.bad = <<nx, ny>>]
               ELSE IF Cardinality(new_possibilities)
                          < Cardinality(old_possibilities)
               THEN [st EXCEPT
                        !.possibilities[ny + 1][nx + 1] = new_possibilities,
                        !.stack = Append(@, <<nx, ny>>)]
               ELSE st

\* Faulty variant: a neighbour is pushed whether or not its set was reduced.
VisitNeighborAlwaysPush(st, nb, current_tiles, coll, rules, w, h) ==
    LET nx == nb[1]
        ny == nb[2]
        direction == nb[3]
    IN IF ~st.ok THEN st
       ELSE IF nx < 0 \/ nx >= w \/ ny < 0 \/ ny >= h THEN st
       ELSE IF At(coll, ny, nx) THEN st
       ELSE LET valid_for_neighbor ==
                    UNION {rules[t][direction] : t \in current_tiles}
                old_possibilities == At(st.possibilities, ny, nx)
                new_possibilities == old_possibilities \cap valid_for_neighbor
            IN IF Cardinality(new_possibilities) = 0
               THEN [st EXCEPT !.ok = FALSE, !.bad = <<nx, ny>>]
               ELSE [st EXCEPT
                        !.possibilities[ny + 1][nx + 1] = new_possibilities,
                        !.stack = Append(@, <<nx, ny>>)]

\* _propagate, the body of the loop over the neighbours, for one neighbour.
\* st: possibilities, stack, ok (FALSE once the code returned False) and
\* bad (the neighbour whose intersection was empty).
VisitNeighbor(st, nb, current_tiles, coll, rules, w, h) ==
    LET nx == nb[1]
        ny == nb[2]
        direction == nb[3]
    IN IF ~st.ok THEN st
       ELSE IF nx < 0 \/ nx >= w \/ ny < 0 \/ ny >= h THEN st
       ELSE IF At(coll, ny, nx) THEN st
       ELSE LET valid_for_neighbor ==
                    UNION {rules[t][direction] : t \in current_tiles}
                old_possibilities == At(st.possibilities, ny, nx)
                new_possibilities == old_possibilities \cap valid_for_neighbor
            IN IF Cardinality(new_possibilities) = 0
               THEN [st EXCEPT !.ok = FALSE, !.bad = <<nx, ny>>]
               ELSE IF Cardinality(new_possibilities)
                          < Cardinality(old_possibilities)
               THEN [st EXCEPT
                        !.possibilities[ny + 1][nx + 1] = new_possibilities,
                        !.stack = Append(@, <<nx, ny>>)]
               ELSE st

\* _propagate, one turn of `while stack`: pop a cell, visit its neighbours.
PropagatePop(poss, coll, stk, rules, w, h) ==
    LET top == stk[Len(stk)]
        cx == top[1]
        cy == top[2]
        current_tiles == At(poss, cy, cx)
        nbrs == Neighbors(cx, cy)
        st0 == [possibilities |-> poss, stack |-> SubSeq(stk, 1, Len(stk) - 1),
                ok |-> TRUE, bad |-> NoCell]
        st1 == VisitNeighbor(st0, nbrs[1], current_tiles, coll, rules, w, h)
        st2 == VisitNeighbor(st1, nbrs[2], current_tiles, coll, rules, w, h)
        st3 == VisitNeighbor(st2, nbrs[3], current_tiles, coll, rules, w, h)
    IN VisitNeighbor(st3, nbrs[4], current_tiles, coll, rules, w, h)

\* _propagate run to its return from the stack stk: the `while stack` loop
\* with the code's pop() (last in, first out).  ok is the value returned.
RECURSIVE PropagateRun(_, _, _, _, _, _)
PropagateRun(poss, coll, stk, rules, w, h) ==
    IF stk = <<>> THEN [ok |-> TRUE, possibilities |-> poss]
    ELSE LET st == PropagatePop(poss, coll, stk, rules, w, h)
         IN IF ~st.ok THEN [ok |-> FALSE, possibilities |-> st.possibilities]
            ELSE PropagateRun(st.possibilities, coll, st.stack, rules, w, h)

\* [[list(possibilities[y][x])[0] for x in range(width)] for y in range(height)]
GridOf(poss, w, h) ==
    [y \in 1..h |-> [x \in 1..w |-> SetToList(poss[y][x])[1]]]

----------------------------------------------------------------------------
(* Inputs *)

Grass == "grass"
Water == "water"

\* Two interchangeable tiles: every pair is compatible in every direction.
CatUniform ==
    << Tile(0, "grass_a", Grass, Grass, Grass, Grass, 2),
       Tile(1, "grass_b", Grass, Grass, Grass, Grass, 1) >>

\* Tile A all grass, tile B all water: no label shared between them.
CatGrassWater ==
    << Tile(0, "grass", Grass, Grass, Grass, Grass, 1),
       Tile(1, "water", Water, Water, Water, Water, 1) >>

\* Grass, water and a shore joining grass (west) to water (east).
CatShore ==
    << Tile(0, "grass", Grass, Grass, Grass, Grass, 2),
       Tile(1, "water", Water, Water, Water, Water, 1),
       Tile(2, "shore", Grass, Grass, Water, Grass, 1) >>

\* One tile that is incompatible with itself in every direction.
CatSelfIncompatible ==
    << Tile(0, "ramp", Grass, Water, Grass, Water, 1) >>

\* Two tiles whose only compatible neighbour is the other one.
CatChecker ==
    << Tile(0, "dark", "a", "b", "a", "b", 1),
       Tile(1, "light", "b", "a", "b", "a", 1) >>

\* Grass and a cliff that nothing can follow to the east.
CatDeadEnd ==
    << Tile(0, "grass", Grass, Grass, Grass, Grass, 1),
       Tile(1, "cliff", Grass, Grass, "drop", Grass, 2) >>

\* head must be followed to the east by tail, and nothing follows tail.
CatChain ==
    << Tile(0, "head", Grass, Grass, "link", "start", 1),
       Tile(1, "tail", Grass, Grass, "end", "link", 1) >>

\* Three interchangeable tiles of different weights.
CatMeadow ==
    << Tile(0, "grass", Grass, Grass, Grass, Grass, 3),
       Tile(1, "flowers", Grass, Grass, Grass, Grass, 1),
       Tile(2, "bush", Grass, Grass, Grass, Grass, 2) >>

Catalogs == {CatUniform, CatGrassWater, CatShore, CatSelfIncompatible,
             CatChecker, CatDeadEnd, CatChain, CatMeadow}

\* Catalogs that __init__ is handed without any validation.
\* No tile at all.
CatEmpty == <<>>

\* Two tiles with the same id.
CatDuplicateIds ==
    << Tile(0, "grass", Grass, Grass, Grass, Grass, 1),
       Tile(0, "water", Water, Water, Water, Water, 1),
       Tile(1, "shore", Grass, Water, Grass, Water, 1) >>

\* A single tile of weight zero.
CatZeroWeight == << Tile(0, "grass", Grass, Grass, Grass, Grass, 0) >>

\* A tile of weight zero next to a tile of positive weight.
CatZeroAndPositive ==
    << Tile(0, "grass", Grass, Grass, Grass, Grass, 0),
       Tile(1, "flowers", Grass, Grass, Grass, Grass, 1) >>

\* A single tile of negative weight.
CatNegativeWeight == << Tile(0, "grass", Grass, Grass, Grass, Grass, -1) >>

\* A single tile without a west label.
CatMissingWest ==
    << [id |-> 0, name |-> "grass", weight |-> 1,
        edges |-> [north |-> Grass, south |-> Grass, east |-> Grass]] >>

\* The second of two tiles has no north label.
CatMissingNorthLater ==
    << Tile(0, "grass", Grass, Grass, Grass, Grass, 1),
       [id |-> 1, name |-> "water", weight |-> 1,
        edges |-> [south |-> Water, east |-> Water, west |-> Water]] >>

UnvalidatedCatalogs ==
    {CatEmpty, CatDuplicateIds, CatZeroWeight, CatZeroAndPositive,
     CatNegativeWeight, CatMissingWest, CatMissingNorthLater,
     CatGrassWater, CatSelfIncompatible}

\* Every catalog of at most MaxCatalogTiles tiles with ids 0, 1, ... whose
\* edges carry one of two labels.
EdgeMaps == [Directions -> {Grass, Water}]

RECURSIVE CatalogsOfLen(_)
CatalogsOfLen(n) ==
    IF n = 0 THEN {<<>>}
    ELSE {Append(c, [id |-> n - 1, name |-> "tile", edges |-> e, weight |-> 1]) :
            c \in CatalogsOfLen(n - 1), e \in EdgeMaps}

CatalogFamily == UNION {CatalogsOfLen(n) : n \in 1..MaxCatalogTiles}

Sizes == {wh \in (1..MaxCells) \X (1..MaxCells) : wh[1] * wh[2] <= MaxCells}

\* Sizes with no cell: argparse takes any int for --width and --height.
ZeroSizes == {wh \in (0..MaxCells) \X (0..MaxCells) :
                 wh[1] * wh[2] = 0 /\ wh[1] + wh[2] <= 2}

Seeds == 0..MaxSeed

----------------------------------------------------------------------------
(* Actions *)

NoOutcome == [returned |-> "none"]

----------------------------------------------------------------------------
(* tmx_generator.py *)

\* The "tileset" object of a tiles JSON file without a firstgid.
TilesetDefault ==
    [name |-> "tiles", tile_width |-> 64, tile_height |-> 32, columns |-> 4]

\* No map document has been written.
NoTmx == [written |-> FALSE]

NoArgs == [kind |-> "none"]

\* dict.get(key, default)
Get(d, key, default) == IF key \in DOMAIN d THEN d[key] ELSE default

Digits == <<"0", "1", "2", "3", "4", "5", "6", "7", "8", "9">>

\* str(n) of an int, as the list of its characters.
RECURSIVE Str(_)
Str(n) ==
    IF n < 0 THEN <<"-">> \o Str(-n)
    ELSE IF n < 10 THEN <<Digits[n + 1]>>
    ELSE Str(n \div 10) \o <<Digits[(n % 10) + 1]>>

\* sep.join(strs)
RECURSIVE Join(_, _)
Join(strs, sep) ==
    IF Len(strs) = 0 THEN <<>>
    ELSE IF Len(strs) = 1 THEN strs[1]
    ELSE strs[1] \o sep \o Join(Tail(strs), sep)

\* Faulty variant: the tile ids are written as they are.
CsvLineRawIds(row, firstgid) ==
    Join([x \in 1..Len(row) |-> Str(row[x])], <<",">>)

\* generate_tmx: ",".join(str(tile_id + firstgid) for tile_id in row)
CsvLine(row, firstgid) ==
    Join([x \in 1..Len(row) |-> Str(row[x] + firstgid)], <<",">>)

\* generate_tmx: the attributes and the text of the document it builds.
\* _prettify_xml writes a lone text child inline and the text holds only
\* digits, commas and newlines, which XML does not escape.
GenerateTmx(g, info) ==
    LET h == Len(g)
        w == IF h > 0 THEN Len(g[1]) ELSE 0
        firstgid == Get(info, "firstgid", 1)
        csv_lines == [y \in 1..h |-> CsvLine(g[y], firstgid)]
        csv_data == Join(csv_lines, <<",", "\n">>)
    IN [written |-> TRUE,
        width |-> Str(w),
        height |-> Str(h),
        nextlayerid |-> <<"2">>,
        nextobjectid |-> <<"1">>,
        tileset |-> [firstgid |-> Str(firstgid)],
        layer |-> [id |-> <<"1">>,
                   name |-> "Ground",
                   width |-> Str(w),
                   height |-> Str(h),
                   encoding |-> "csv",
                   text |-> <<"\n">> \o csv_data \o <<"\n">>],
        objectgroups |-> <<>>]

InitOf(cats, sizes, seeds, rec) ==
    /\ tiles \in cats
    /\ tile_by_id = <<>>
    /\ adjacency_rules = <<>>
    /\ \E wh \in sizes : width = wh[1] /\ height = wh[2]
    /\ seed \in seeds
    /\ rng = Unseeded
    /\ possibilities = <<>>
    /\ collapsed = <<>>
    /\ iterations = 0
    /\ stack = <<>>
    /\ cur = NoCell
    /\ pc = "start"
    /\ returned = "none"
    /\ grid = <<>>
    /\ message = ""
    /\ failed_at = NoCell
    /\ empty_at = NoCell
    /\ exit_status = 0
    /\ files = {}
    /\ run = 1
    /\ first = NoOutcome
    /\ record = rec
    /\ trace = <<>>
    /\ other_run = "idle"
    /\ tileset_info = TilesetDefault
    /\ tmx = NoTmx
    /\ sample_args = NoArgs
    /\ spawns = <<>>
    /\ attempts = 0

InitWith(cats, seeds, rec) == InitOf(cats, Sizes, seeds, rec)

Init == InitWith(Catalogs, Seeds \cup {NoSeed}, FALSE)

\* Faulty variant: the KeyError is caught and the generator is kept, with
\* an empty adjacency table.
LoadSwallowingKeyError ==
    /\ pc = "start"
    /\ tile_by_id' = TileById(tiles)
    /\ adjacency_rules' = IF ComputeRaises(tiles) THEN <<>>
                          ELSE ComputeAdjacencyRules(tiles)
    /\ pc' = "loaded"
    /\ UNCHANGED <<tiles, width, height, seed, rng, possibilities, collapsed,
                   iterations, stack, cur, returned, grid, message, failed_at,
                   empty_at, exit_status, files, run, first, record, trace,
                   other_run>>
    /\ UNCHANGED <<tileset_info, tmx, sample_args, spawns, attempts>>

\* WFCGenerator.__init__, called by main.  A KeyError raised by
\* _compute_adjacency_rules leaves __init__ and main: no generator object
\* exists and the process ends with a traceback and status 1.
Load ==
    /\ pc = "start"
    /\ IF ComputeRaises(tiles)
       THEN /\ message' = "KeyError"
            /\ exit_status' = 1
            /\ pc' = "exited"
            /\ UNCHANGED <<tile_by_id, adjacency_rules>>
       ELSE /\ tile_by_id' = TileById(tiles)
            /\ adjacency_rules' = ComputeAdjacencyRules(tiles)
            /\ pc' = "loaded"
            /\ UNCHANGED <<message, exit_status>>
    /\ UNCHANGED <<tiles, width, height, seed, rng, possibilities, collapsed,
                   iterations, stack, cur, returned, grid, failed_at,
                   empty_at, files, run, first, record, trace,
                   other_run>>
    /\ UNCHANGED <<tileset_info, tmx, sample_args, spawns, attempts>>

\* Faulty variant: the seed argument is ignored.
SeededRngIgnored(g, s) == g

\* generate: if seed is not None: random.seed(seed)
SeededRng(g, s) == IF s # NoSeed THEN SeedRng(s) ELSE g

\* Faulty variant: a cap without slack, reached by every complete run.
MaxIterationsNoSlack(w, h) == w * h

\* Faulty variant: a cap that is already reached on a single cell.
MaxIterationsOffByOne(w, h) == (w * h - 1) * 100

\* generate: max_iterations = width * height * 100
MaxIterations(w, h) == w * h * 100

\* Faulty variant: the cap counts as reached only once it is exceeded.
CapReachedStrict(n, w, h) == n > MaxIterations(w, h)

\* generate: if iterations >= max_iterations
CapReached(n, w, h) == n >= MaxIterations(w, h)

\* generate, up to the main loop.
GenerateStart ==
    /\ pc = "loaded"
    /\ rng' = SeededRng(rng, seed)
    /\ possibilities' =
          [y \in 1..height |-> [x \in 1..width |-> TileIds(tiles)]]
    /\ collapsed' = [y \in 1..height |-> [x \in 1..width |-> FALSE]]
    /\ iterations' = 0
    /\ stack' = <<>>
    /\ cur' = NoCell
    /\ returned' = "none"
    /\ grid' = <<>>
    /\ message' = ""
    /\ failed_at' = NoCell
    /\ empty_at' = NoCell
    /\ trace' = <<>>
    /\ pc' = "loop"
    /\ UNCHANGED <<tiles, tile_by_id, adjacency_rules, width, height, seed,
                   exit_status, files, run, first, record,
                   other_run>>
    /\ UNCHANGED <<tileset_info, tmx, sample_args, spawns, attempts>>

Unresolved(coll) ==
    {yx \in (1..Len(coll)) \X (1..Len(coll[1])) : ~coll[yx[1]][yx[2]]}

\* generate, one turn of the main loop up to the call of _propagate:
\* select the cell of minimum entropy and collapse it.
SelectCollapse ==
    /\ pc = "loop"
    /\ ~IsFullyCollapsed(collapsed)
    /\ iterations < MaxIterations(width, height)
    /\ \E d \in DrawSeqs(rng, Cardinality(Unresolved(collapsed)) + 1) :
          LET found == FindMinEntropyCell(possibilities, collapsed, d)
              min_cell == found.min_cell
          IN IF min_cell = NoCell
             THEN /\ rng' = Advance(rng, found.used)
                  /\ pc' = "after_loop"
                  /\ UNCHANGED <<possibilities, collapsed, stack, cur, trace,
                                 returned, message>>
             ELSE IF CollapseRaises(tile_by_id,
                                    At(possibilities, min_cell[1], min_cell[2]))
             THEN /\ rng' = Advance(rng, found.used)
                  /\ returned' = "raised"
                  /\ message' = "ValueError"
                  /\ pc' = "returned"
                  /\ UNCHANGED <<possibilities, collapsed, stack, cur, trace>>
             ELSE LET y == min_cell[1]
                      x == min_cell[2]
                      chosen_tile == CollapseCell(tile_by_id,
                                        At(possibilities, y, x),
                                        d[found.used + 1])
                  IN /\ possibilities' =
                          SetCell(possibilities, y, x, {chosen_tile})
                     /\ collapsed' = SetCell(collapsed, y, x, TRUE)
                     /\ rng' = Advance(rng, found.used + 1)
                     /\ cur' = <<x, y>>
                     /\ stack' = << <<x, y>> >>
                     /\ trace' = IF record
                                 THEN Append(trace, [cell |-> min_cell,
                                                     tile |-> chosen_tile])
                                 ELSE trace
                     /\ pc' = "propagate"
                     /\ UNCHANGED <<returned, message>>
    /\ iterations' = iterations + 1
    /\ UNCHANGED <<tiles, tile_by_id, adjacency_rules, width, height, seed,
                   grid, failed_at, empty_at, exit_status, files, run, first,
                   record, other_run>>
    /\ UNCHANGED <<tileset_info, tmx, sample_args, spawns, attempts>>

\* Faulty variant: on a contradiction the failure is reported but the main
\* loop goes on with the next cell instead of returning None.
PropagateStepContinuing ==
    /\ pc = "propagate"
    /\ stack # <<>>
    /\ LET st == PropagatePop(possibilities, collapsed, stack,
                              adjacency_rules, width, height)
       IN /\ possibilities' = st.possibilities
          /\ IF st.ok
             THEN /\ stack' = st.stack
                  /\ UNCHANGED <<pc, message, failed_at, empty_at>>
             ELSE /\ message' = "Contradiction"
                  /\ failed_at' = cur
                  /\ empty_at' = st.bad
                  /\ stack' = <<>>
                  /\ pc' = "loop"
    /\ UNCHANGED <<tiles, tile_by_id, adjacency_rules, width, height, seed,
                   rng, collapsed, iterations, cur, returned, grid,
                   exit_status, files, run, first, record, trace,
                   other_run>>
    /\ UNCHANGED <<tileset_info, tmx, sample_args, spawns, attempts>>

\* _propagate, one turn of `while stack`; on a contradiction _propagate
\* returns False and generate prints the failure and returns None.
PropagateStep ==
    /\ pc = "propagate"
    /\ stack # <<>>
    /\ LET st == PropagatePop(possibilities, collapsed, stack,
                              adjacency_rules, width, height)
       IN /\ possibilities' = st.possibilities
          /\ stack' = st.stack
          /\ IF st.ok
             THEN UNCHANGED <<pc, returned, message, failed_at, empty_at>>
             ELSE /\ message' = "Contradiction"
                  /\ failed_at' = cur
                  /\ empty_at' = st.bad
                  /\ returned' = "None"
                  /\ pc' = "returned"
    /\ UNCHANGED <<tiles, tile_by_id, adjacency_rules, width, height, seed,
                   rng, collapsed, iterations, cur, grid, exit_status, files,
                   run, first, record, trace,
                   other_run>>
    /\ UNCHANGED <<tileset_info, tmx, sample_args, spawns, attempts>>

\* _propagate: the stack is empty, return True; back to the main loop.
PropagateReturn ==
    /\ pc = "propagate"
    /\ stack = <<>>
    /\ pc' = "loop"
    /\ UNCHANGED <<tiles, tile_by_id, adjacency_rules, width, height, seed,
                   rng, possibilities, collapsed, iterations, stack, cur,
                   returned, grid, message, failed_at, empty_at, exit_status,
                   files, run, first, record, trace,
                   other_run>>
    /\ UNCHANGED <<tileset_info, tmx, sample_args, spawns, attempts>>

\* generate: the condition of the main loop is false.
LoopExit ==
    /\ pc = "loop"
    /\ ~(~IsFullyCollapsed(collapsed)
         /\ iterations < MaxIterations(width, height))
    /\ pc' = "after_loop"
    /\ UNCHANGED <<tiles, tile_by_id, adjacency_rules, width, height, seed,
                   rng, possibilities, collapsed, iterations, stack, cur,
                   returned, grid, message, failed_at, empty_at, exit_status,
                   files, run, first, record, trace,
                   other_run>>
    /\ UNCHANGED <<tileset_info, tmx, sample_args, spawns, attempts>>

\* generate, after the main loop.
Finish ==
    /\ pc = "after_loop"
    /\ IF CapReached(iterations, width, height)
       THEN /\ message' = "MaxIterations"
            /\ returned' = "None"
            /\ grid' = grid
       ELSE IF \E y \in 1..height : \E x \in 1..width :
                  possibilities[y][x] = {}
       THEN \* list(possibilities[y][x])[0] on an empty set
            /\ message' = "IndexError"
            /\ returned' = "raised"
            /\ grid' = grid
       ELSE /\ grid' = GridOf(possibilities, width, height)
            /\ returned' = "grid"
            /\ message' = message
    /\ pc' = "returned"
    /\ UNCHANGED <<tiles, tile_by_id, adjacency_rules, width, height, seed,
                   rng, possibilities, collapsed, iterations, stack, cur,
                   failed_at, empty_at, exit_status, files, run, first, record,
                   trace,
                   other_run>>
    /\ UNCHANGED <<tileset_info, tmx, sample_args, spawns, attempts>>

\* Faulty variant: the grid is saved without the check for None.
WfcMainTailUnchecked(ret) == [exit_status |-> 0, files |-> {"json"}]

\* wfc_generator.main after generate returned `ret`.
WfcMainTail(ret) ==
    IF ret = "None"
    THEN [exit_status |-> 1, files |-> {}]
    ELSE [exit_status |-> 0, files |-> {"json"}]

\* generate_map.main after generate returned `ret`.
GenerateMapMainTail(ret, save_grid) ==
    IF ret = "None"
    THEN [exit_status |-> 1, files |-> {}]
    ELSE [exit_status |-> 0,
          files |-> (IF save_grid THEN {"grid_json"} ELSE {}) \cup {"tmx"}]

\* wfc_generator.py run as a script: main, after generate.
WfcGeneratorMain ==
    /\ pc = "returned"
    /\ IF returned = "raised"
       THEN \* the exception leaves main: traceback, status 1
            /\ exit_status' = 1
            /\ files' = files
       ELSE LET end == WfcMainTail(returned)
            IN /\ exit_status' = end.exit_status
               /\ files' = files \cup end.files
    /\ pc' = "exited"
    /\ UNCHANGED <<tiles, tile_by_id, adjacency_rules, width, height, seed,
                   rng, possibilities, collapsed, iterations, stack, cur,
                   returned, grid, message, failed_at, empty_at, run, first,
                   record, trace,
                   other_run>>
    /\ UNCHANGED <<tileset_info, tmx, sample_args, spawns, attempts>>

\* generate_map.py run as a script: main, after generate.
GenerateMapMain ==
    /\ pc = "returned"
    /\ \E save_grid \in BOOLEAN :
          IF returned = "raised"
          THEN \* the exception leaves main: traceback, status 1
               /\ exit_status' = 1
               /\ files' = files
          ELSE LET end == GenerateMapMainTail(returned, save_grid)
               IN /\ exit_status' = end.exit_status
                  /\ files' = files \cup end.files
    /\ pc' = "exited"
    /\ UNCHANGED <<tiles, tile_by_id, adjacency_rules, width, height, seed,
                   rng, possibilities, collapsed, iterations, stack, cur,
                   returned, grid, message, failed_at, empty_at, run, first,
                   record, trace,
                   other_run>>
    /\ tmx' = IF returned = "grid" THEN GenerateTmx(grid, tileset_info) ELSE tmx
    /\ UNCHANGED <<tileset_info, sample_args, spawns, attempts>>

----------------------------------------------------------------------------
(* add_enemy_spawns.py, add_objectives.py: the point samplers *)

\* max_attempts = num_spawns * 50, max_attempts = num_objectives * 100
SpawnAttemptsPerPoint == 50
ObjectiveAttemptsPerPoint == 100

\* Faulty variant: the spawn sampler is given the objectives' limit.
MaxAttemptsObjectives(args) == args.num * ObjectiveAttemptsPerPoint

MaxAttempts(args) ==
    IF args.kind = "spawns" THEN args.num * SpawnAttemptsPerPoint
    ELSE args.num * ObjectiveAttemptsPerPoint

\* min_tile, max_tile_x, max_tile_y
MinTile(args) == args.edge_margin
MaxTileX(args) == args.width - args.edge_margin - 1
MaxTileY(args) == args.height - args.edge_margin - 1

\* "raise ValueError(Edge margin ... too large for map ...)"
MarginTooLarge(args) ==
    MinTile(args) >= MaxTileX(args) \/ MinTile(args) >= MaxTileY(args)

\* tile_to_world, in eighths of a world unit (the floats it computes are
\* exact multiples of 1/8 for integer tile sizes):
\*   world_x = (tile_x - tile_y) * tile_width / 2.0 - center_world_x
\*   world_y = (tile_x + tile_y) * tile_height / 4.0 - center_world_y
\* with center_tile_x = (width - 1) / 2.0, center_tile_y = (height - 1) / 2.0.
TileToWorld(args, tile_x, tile_y) ==
    LET world_x8 == (tile_x - tile_y) * args.tile_width * 4
        world_y8 == (tile_x + tile_y) * args.tile_height * 2
        center_world_x8 == ((args.width - 1) - (args.height - 1))
                              * args.tile_width * 2
        center_world_y8 == ((args.width - 1) + (args.height - 1))
                              * args.tile_height
    IN <<world_x8 - center_world_x8, world_y8 - center_world_y8>>

\* 64 * distance(p1, p2) ** 2 for points given in eighths.
DistanceSquared(p1, p2) ==
    (p1[1] - p2[1]) * (p1[1] - p2[1]) + (p1[2] - p2[2]) * (p1[2] - p2[2])

\* Faulty variant: the square root is forgotten, the squared distance is
\* compared with min_distance.
TooCloseNoSqrt(p1, p2, min_distance) ==
    DistanceSquared(p1, p2) < 64 * min_distance

\* distance(p1, p2) < min_distance
TooClose(p1, p2, min_distance) ==
    /\ min_distance > 0
    /\ DistanceSquared(p1, p2) < 64 * min_distance * min_distance

\* The enemy type of the roll random.random() = v / RndDen:
\* roll < 0.6 slime, roll < 0.85 goblin, else skeleton.
EnemyType(v) ==
    IF 10 * v < 6 * RndDen THEN "slime"
    ELSE IF 100 * v < 85 * RndDen THEN "goblin"
    ELSE "skeleton"

\* The world position of an accepted point.
PointOf(sp) == <<sp.x8, sp.y8>>

\* generate_spawn_points / generate_objective_points, up to the loop.
SampleStart ==
    /\ pc = "sample_start"
    /\ IF MarginTooLarge(sample_args)
       THEN /\ returned' = "raised"
            /\ message' = "ValueError"
            /\ pc' = "sample_done"
       ELSE /\ pc' = "sample_loop"
            /\ UNCHANGED <<returned, message>>
    /\ spawns' = <<>>
    /\ attempts' = 0
    /\ UNCHANGED <<tiles, tile_by_id, adjacency_rules, width, height, seed,
                   rng, possibilities, collapsed, iterations, stack, cur,
                   grid, failed_at, empty_at, exit_status, files, run, first,
                   record, trace, other_run>>
    /\ UNCHANGED <<tileset_info, tmx, sample_args>>

\* One turn of `while len(spawns) < num_spawns and attempts < max_attempts`.
SampleDraw ==
    /\ pc = "sample_loop"
    /\ Len(spawns) < sample_args.num
    /\ attempts < MaxAttempts(sample_args)
    /\ \E tile_x \in MinTile(sample_args)..MaxTileX(sample_args),
          tile_y \in MinTile(sample_args)..MaxTileY(sample_args),
          v \in 0..(RndDen - 1) :
          LET world == TileToWorld(sample_args, tile_x, tile_y)
              too_close ==
                  \E i \in 1..Len(spawns) :
                      TooClose(world, PointOf(spawns[i]),
                               sample_args.min_distance)
          IN spawns' =
                IF too_close THEN spawns
                ELSE IF sample_args.kind = "spawns"
                THEN Append(spawns, [x8 |-> world[1], y8 |-> world[2],
                                     enemy_type |-> EnemyType(v)])
                ELSE Append(spawns, [x8 |-> world[1], y8 |-> world[2]])
    /\ attempts' = attempts + 1
    /\ UNCHANGED <<tiles, tile_by_id, adjacency_rules, width, height, seed,
                   rng, possibilities, collapsed, iterations, stack, cur, pc,
                   returned, grid, message, failed_at, empty_at, exit_status,
                   files, run, first, record, trace, other_run>>
    /\ UNCHANGED <<tileset_info, tmx, sample_args>>

\* The loop's condition is false: return the points.
SampleReturn ==
    /\ pc = "sample_loop"
    /\ ~(Len(spawns) < sample_args.num
         /\ attempts < MaxAttempts(sample_args))
    /\ returned' = "points"
    /\ pc' = "sample_done"
    /\ UNCHANGED <<tiles, tile_by_id, adjacency_rules, width, height, seed,
                   rng, possibilities, collapsed, iterations, stack, cur,
                   grid, message, failed_at, empty_at, exit_status, files,
                   run, first, record, trace, other_run>>
    /\ UNCHANGED <<tileset_info, tmx, sample_args, spawns, attempts>>

----------------------------------------------------------------------------
(* add_enemy_spawns.py, add_objectives.py: the object layers of the map *)

\* int(s) of a list of decimal digits.
RECURSIVE IntOf(_)
IntOf(s) ==
    IF Len(s) = 0 THEN 0
    ELSE 10 * IntOf(SubSeq(s, 1, Len(s) - 1))
            + (CHOOSE d \in 0..9 : Digits[d + 1] = s[Len(s)])

\* The groups of a list without those named `name`.
WithoutNamed(groups, name) ==
    LET Other(g) == g.name # name
    IN SelectSeq(groups, Other)

\* The groups of a list without the first one named `name`.
WithoutFirstNamed(groups, name) ==
    IF \A i \in 1..Len(groups) : groups[i].name # name THEN groups
    ELSE LET k == CHOOSE i \in 1..Len(groups) :
                     /\ groups[i].name = name
                     /\ \A j \in 1..(i - 1) : groups[j].name # name
         IN SubSeq(groups, 1, k - 1) \o SubSeq(groups, k + 1, Len(groups))

\* len(root.findall('layer')) + len(root.findall('objectgroup')) + 1,
\* evaluated after the new group was added to the root: the document has
\* the one layer generate_tmx wrote, and then num_groups object groups.
NextLayerId(num_groups) == 1 + num_groups + 1

\* add_spawns_to_tmx(tmx_path, spawns) on the document doc; spawns is
\* given by the enemy types of its points.
AddSpawns(doc, spawn_types) ==
    LET kept == WithoutNamed(doc.objectgroups, "EnemySpawns")
        objects == [idx \in 1..Len(spawn_types) |->
                       [id |-> Str(idx), kind |-> "Spawn",
                        type |-> spawn_types[idx]]]
        object_layer == [id |-> Str(NextLayerId(Len(kept) + 1)),
                         name |-> "EnemySpawns",
                         objects |-> objects]
    IN [doc EXCEPT !.objectgroups = Append(kept, object_layer)]

\* The largest id among the objects of a group, 0 without objects.
MaxObjectId(group) ==
    IF Len(group.objects) = 0 THEN 0
    ELSE LET ids == {IntOf(group.objects[i].id) : i \in 1..Len(group.objects)}
         IN CHOOSE m \in ids : \A n \in ids : n <= m

\* add_objectives_to_tmx on the document doc, after generate_objective_points
\* returned num_points points and generate_enemies_in_zone the enemies of
\* types enemy_types for the outposts together.
AddObjectives(doc, scrapyard_count, num_points, enemy_types) ==
    LET kept == WithoutFirstNamed(doc.objectgroups, "Objectives")
        next_layer_id == NextLayerId(Len(kept) + 1)
        objects == [idx \in 1..num_points |->
                       [id |-> Str(idx),
                        kind |-> IF idx - 1 < scrapyard_count
                                 THEN "Scrapyard" ELSE "Outpost",
                        type |-> IF idx - 1 < scrapyard_count
                                 THEN "alien_scrapyard"
                                 ELSE "capture_outpost"]]
        obj_layer == [id |-> Str(next_layer_id), name |-> "Objectives",
                      objects |-> objects]
        groups == Append(kept, obj_layer)
        IsEnemyLayer(g) == g.name \in {"Spawns", "EnemySpawns"}
        found == {i \in 1..Len(groups) : IsEnemyLayer(groups[i])}
        with_layer == IF found # {} THEN groups
                      ELSE Append(groups, [id |-> Str(next_layer_id + 1),
                                           name |-> "EnemySpawns",
                                           objects |-> <<>>])
        k == CHOOSE i \in 1..Len(with_layer) :
                 /\ IsEnemyLayer(with_layer[i])
                 /\ \A j \in 1..(i - 1) : ~IsEnemyLayer(with_layer[j])
        max_id == MaxObjectId(with_layer[k])
        added == [idx \in 1..Len(enemy_types) |->
                     [id |-> Str(max_id + idx), kind |-> "Outpost_Spawn",
                      type |-> enemy_types[idx]]]
    IN IF Len(enemy_types) = 0
       THEN [doc EXCEPT !.objectgroups = groups]
       ELSE [doc EXCEPT !.objectgroups =
                [with_layer EXCEPT ![k].objects = @ \o added]]

\* The number of points generate_objective_points can return when asked
\* for `total`: the first draw is always accepted, later ones may all be
\* rejected until the attempts run out.
PointCounts(total) == IF total <= 0 THEN {0} ELSE 1..total

\* generate_enemies_in_zone: the enemy type of the roll v / RndDen:
\* roll < 0.4 goblin, roll < 0.8 skeleton, else slime.
EnemyTypeInZone(v) ==
    IF 10 * v < 4 * RndDen THEN "goblin"
    ELSE IF 10 * v < 8 * RndDen THEN "skeleton"
    ELSE "slime"

\* The number of objects in the enemy layer of a document, 0 without one.
EnemyObjects(doc) ==
    LET found == {i \in 1..Len(doc.objectgroups) :
                     doc.objectgroups[i].name \in {"Spawns", "EnemySpawns"}}
    IN IF found = {} THEN 0
       ELSE Len(doc.objectgroups[CHOOSE i \in found :
                                     \A j \in found : i <= j].objects)

\* Margins of add_objectives_to_tmx: 1 leaves the inner 2 x 2 tiles of a
\* 4 x 4 map, 2 is too large for it.
ObjectiveMargins == {1, 2}

\* add_spawns_to_tmx is given at most MaxSpawnObjects spawns, and the enemy
\* layer is let grow to at most MaxGroupObjects objects.
MaxSpawnObjects == 2
MaxGroupObjects == 3

\* add_enemy_spawns.py: add_spawns_to_tmx on the map file, for a list of
\* at most MaxSpawnObjects spawns.
AddSpawnsToTmx ==
    /\ pc = "map_written"
    /\ \E n \in 0..MaxSpawnObjects :
          \E spawn_types \in [1..n -> {"slime", "goblin", "skeleton"}] :
              tmx' = AddSpawns(tmx, spawn_types)
    /\ UNCHANGED <<tiles, tile_by_id, adjacency_rules, width, height, seed,
                   rng, possibilities, collapsed, iterations, stack, cur, pc,
                   returned, grid, message, failed_at, empty_at, exit_status,
                   files, run, first, record, trace, other_run>>
    /\ UNCHANGED <<tileset_info, sample_args, spawns, attempts>>

\* add_objectives.py: add_objectives_to_tmx on the map file.  With a margin
\* too large for the map generate_objective_points raises ValueError
\* before the file is written.
AddObjectivesToTmx ==
    /\ pc = "map_written"
    /\ \E scrapyard_count \in 0..1, outpost_count \in 0..1,
          enemies_per_outpost \in 0..1, edge_margin \in ObjectiveMargins :
          LET margins == [width |-> IntOf(tmx.width),
                          height |-> IntOf(tmx.height),
                          edge_margin |-> edge_margin]
          IN IF MarginTooLarge(margins)
             THEN /\ message' = "ValueError"
                  /\ tmx' = tmx
             ELSE \E num_points \in PointCounts(scrapyard_count
                                                  + outpost_count) :
                     LET outposts == IF num_points > scrapyard_count
                                     THEN num_points - scrapyard_count
                                     ELSE 0
                         n == outposts * enemies_per_outpost
                     IN /\ EnemyObjects(tmx) + n <= MaxGroupObjects
                        /\ \E vs \in [1..n -> 0..(RndDen - 1)] :
                              tmx' = AddObjectives(tmx, scrapyard_count,
                                        num_points,
                                        [i \in 1..n |->
                                            EnemyTypeInZone(vs[i])])
                        /\ message' = message
    /\ UNCHANGED <<tiles, tile_by_id, adjacency_rules, width, height, seed,
                   rng, possibilities, collapsed, iterations, stack, cur, pc,
                   returned, grid, failed_at, empty_at, exit_status,
                   files, run, first, record, trace, other_run>>
    /\ UNCHANGED <<tileset_info, sample_args, spawns, attempts>>

----------------------------------------------------------------------------

\* tmx_generator.py run as a script: main.
TmxGeneratorMain ==
    /\ pc = "tmx_start"
    /\ tmx' = GenerateTmx(grid, tileset_info)
    /\ files' = files \cup {"tmx"}
    /\ pc' = "exited"
    /\ UNCHANGED <<tiles, tile_by_id, adjacency_rules, width, height, seed,
                   rng, possibilities, collapsed, iterations, stack, cur,
                   returned, grid, message, failed_at, empty_at, exit_status,
                   run, first, record, trace, other_run>>
    /\ UNCHANGED <<tileset_info, sample_args, spawns, attempts>>

Outcome ==
    [returned |-> returned, grid |-> grid, message |-> message,
     failed_at |-> failed_at, trace |-> trace]

\* A second, independent call of generate with the same arguments on the
\* same generator object, after the first one returned.
Rerun ==
    /\ pc = "returned"
    /\ run = 1
    /\ first' = Outcome
    /\ run' = 2
    /\ pc' = "loaded"
    /\ UNCHANGED <<tiles, tile_by_id, adjacency_rules, width, height, seed,
                   rng, possibilities, collapsed, iterations, stack, cur,
                   returned, grid, message, failed_at, empty_at, exit_status,
                   files, record, trace,
                   other_run>>
    /\ UNCHANGED <<tileset_info, tmx, sample_args, spawns, attempts>>

\* Another call of generate of the same process (its own grid is local to
\* it) starts between two steps of the second call: random.seed(s) on the
\* module-level generator.
OtherRunStart ==
    /\ run = 2
    /\ pc \in {"loop", "propagate", "after_loop"}
    /\ other_run = "idle"
    /\ \E s \in Seeds : rng' = SeedRng(s)
    /\ other_run' = "running"
    /\ UNCHANGED <<tiles, tile_by_id, adjacency_rules, width, height, seed,
                   possibilities, collapsed, iterations, stack, cur, pc,
                   returned, grid, message, failed_at, empty_at, exit_status,
                   files, run, first, record, trace>>
    /\ UNCHANGED <<tileset_info, tmx, sample_args, spawns, attempts>>

\* The other call draws: random.random() in its _find_min_entropy_cell or
\* in its random.choices.
OtherRunDraw ==
    /\ run = 2
    /\ pc \in {"loop", "propagate", "after_loop"}
    /\ other_run = "running"
    /\ rng' = Advance(rng, 1)
    /\ UNCHANGED <<tiles, tile_by_id, adjacency_rules, width, height, seed,
                   possibilities, collapsed, iterations, stack, cur, pc,
                   returned, grid, message, failed_at, empty_at, exit_status,
                   files, run, first, record, trace, other_run>>
    /\ UNCHANGED <<tileset_info, tmx, sample_args, spawns, attempts>>

\* The other call returns.
OtherRunReturn ==
    /\ other_run = "running"
    /\ other_run' = "done"
    /\ UNCHANGED <<tiles, tile_by_id, adjacency_rules, width, height, seed,
                   rng, possibilities, collapsed, iterations, stack, cur, pc,
                   returned, grid, message, failed_at, empty_at, exit_status,
                   files, run, first, record, trace>>
    /\ UNCHANGED <<tileset_info, tmx, sample_args, spawns, attempts>>

----------------------------------------------------------------------------
(* Specifications *)

Next ==
    \/ Load
    \/ GenerateStart
    \/ SelectCollapse
    \/ PropagateStep
    \/ PropagateReturn
    \/ LoopExit
    \/ Finish
    \/ WfcGeneratorMain
    \/ GenerateMapMain

\* One run of a pipeline: load the catalog, generate, export.
Spec == Init /\ [][Next]_vars

InitRerun == InitWith(Catalogs, Seeds, TRUE)

NextRerun ==
    \/ Load
    \/ GenerateStart
    \/ SelectCollapse
    \/ PropagateStep
    \/ PropagateReturn
    \/ LoopExit
    \/ Finish
    \/ Rerun

\* Two calls of generate, one after the other, with the same catalog, size
\* and explicit seed; the selections of each call are logged.
SpecRerun == InitRerun /\ [][NextRerun]_vars

InitCatalog ==
    /\ InitWith(CatalogFamily \cup Catalogs, {NoSeed}, FALSE)
    /\ width = 1
    /\ height = 1

NextCatalog == Load

\* Construction of the generator only: the adjacency table of a catalog.
SpecCatalog == InitCatalog /\ [][NextCatalog]_vars

InitUnvalidated ==
    InitOf(UnvalidatedCatalogs, Sizes \cup ZeroSizes, {NoSeed, 0}, FALSE)

\* One run of a pipeline on whatever the command line and the tiles file
\* hold: nothing in the code validates the catalog or the size.
SpecUnvalidated == InitUnvalidated /\ [][Next]_vars

InitInterleaved ==
    InitOf({CatUniform, CatShore, CatChain},
           {wh \in Sizes : wh[1] * wh[2] <= 2}, Seeds, TRUE)

NextInterleaved ==
    \/ Load
    \/ GenerateStart
    \/ SelectCollapse
    \/ PropagateStep
    \/ PropagateReturn
    \/ LoopExit
    \/ Finish
    \/ Rerun
    \/ OtherRunStart
    \/ OtherRunDraw
    \/ OtherRunReturn

\* A seeded call of generate alone, then the same call again while another
\* seeded call of generate runs in the same process, their steps
\* interleaved.
SpecInterleaved == InitInterleaved /\ [][NextInterleaved]_vars

\* Grids of at most MaxTmxRows rows and MaxTmxCols columns, as generate
\* returns them: rectangular, with at least one row and one column.
MaxTmxRows == 2
MaxTmxCols == 2

\* Tile ids whose sum with a firstgid has one, two or three digits.
TmxTileIds == {0, 9}

TmxGrids ==
    UNION {[1..h -> [1..w -> TmxTileIds]] :
              h \in 1..MaxTmxRows, w \in 1..MaxTmxCols}

\* The "tileset" object without a firstgid and with firstgid 1 and 101.
TilesetInfos ==
    {TilesetDefault}
        \cup {[name |-> "tiles", tile_width |-> 64, tile_height |-> 32,
                columns |-> 4, firstgid |-> f] : f \in {1, 101}}

\* The grid of a grid JSON file and the tileset of a tiles JSON file, as
\* tmx_generator.py's main reads them.
InitTmx ==
    /\ tiles = CatUniform
    /\ tile_by_id = <<>>
    /\ adjacency_rules = <<>>
    /\ grid \in TmxGrids
    /\ width = Len(grid[1])
    /\ height = Len(grid)
    /\ seed = NoSeed
    /\ rng = Unseeded
    /\ possibilities = <<>>
    /\ collapsed = <<>>
    /\ iterations = 0
    /\ stack = <<>>
    /\ cur = NoCell
    /\ pc = "tmx_start"
    /\ returned = "grid"
    /\ message = ""
    /\ failed_at = NoCell
    /\ empty_at = NoCell
    /\ exit_status = 0
    /\ files = {}
    /\ run = 1
    /\ first = NoOutcome
    /\ record = FALSE
    /\ trace = <<>>
    /\ other_run = "idle"
    /\ tileset_info \in TilesetInfos
    /\ tmx = NoTmx
    /\ sample_args = NoArgs
    /\ spawns = <<>>
    /\ attempts = 0

NextTmx == TmxGeneratorMain

\* tmx_generator.py converting one grid.
SpecTmx == InitTmx /\ [][NextTmx]_vars

\* Maps <<width, height, edge_margin>>: the whole 2 x 2 map, the inner
\* 2 x 2 tiles of a 4 x 4 map, and a 3 x 3 map whose margin is too large.
SampleMaps == {<<2, 2, 0>>, <<4, 4, 1>>, <<3, 3, 1>>}

\* Isometric tiles, twice as wide as high.
SampleTileWidth == 4
SampleTileHeight == 2

\* Numbers of points asked for.
SampleCounts == {0, 1, 2}

\* min_distance in 0..MaxMinDistance world units; neighbouring tiles are
\* 1 (north-south), about 2.06 (along an axis) and 4 (east-west) apart.
MaxMinDistance == 3

SampleArgs ==
    {[kind |-> k, width |-> m[1], height |-> m[2],
      tile_width |-> SampleTileWidth, tile_height |-> SampleTileHeight,
      num |-> n, min_distance |-> d, edge_margin |-> m[3]] :
        k \in {"spawns", "objectives"}, m \in SampleMaps,
        n \in SampleCounts, d \in 0..MaxMinDistance}

\* A call of generate_spawn_points or generate_objective_points.
InitSample ==
    /\ tiles = CatUniform
    /\ tile_by_id = <<>>
    /\ adjacency_rules = <<>>
    /\ width = 1
    /\ height = 1
    /\ seed = NoSeed
    /\ rng = Unseeded
    /\ possibilities = <<>>
    /\ collapsed = <<>>
    /\ iterations = 0
    /\ stack = <<>>
    /\ cur = NoCell
    /\ pc = "sample_start"
    /\ returned = "none"
    /\ grid = <<>>
    /\ message = ""
    /\ failed_at = NoCell
    /\ empty_at = NoCell
    /\ exit_status = 0
    /\ files = {}
    /\ run = 1
    /\ first = NoOutcome
    /\ record = FALSE
    /\ trace = <<>>
    /\ other_run = "idle"
    /\ tileset_info = TilesetDefault
    /\ tmx = NoTmx
    /\ sample_args \in SampleArgs
    /\ spawns = <<>>
    /\ attempts = 0

NextSample ==
    \/ SampleStart
    \/ SampleDraw
    \/ SampleReturn

SpecSample == InitSample /\ [][NextSample]_vars

\* A generated map of 4 x 4 tiles.
MapGrid == [y \in 1..4 |-> [x \in 1..4 |-> 0]]

\* A map file as generate_tmx wrote it, before any run of
\* add_enemy_spawns.py or add_objectives.py.
InitLayers ==
    /\ tiles = CatUniform
    /\ tile_by_id = <<>>
    /\ adjacency_rules = <<>>
    /\ grid = MapGrid
    /\ width = Len(grid[1])
    /\ height = Len(grid)
    /\ seed = NoSeed
    /\ rng = Unseeded
    /\ possibilities = <<>>
    /\ collapsed = <<>>
    /\ iterations = 0
    /\ stack = <<>>
    /\ cur = NoCell
    /\ pc = "map_written"
    /\ returned = "grid"
    /\ message = ""
    /\ failed_at = NoCell
    /\ empty_at = NoCell
    /\ exit_status = 0
    /\ files = {"tmx"}
    /\ run = 1
    /\ first = NoOutcome
    /\ record = FALSE
    /\ trace = <<>>
    /\ other_run = "idle"
    /\ tileset_info = TilesetDefault
    /\ tmx = GenerateTmx(MapGrid, TilesetDefault)
    /\ sample_args = NoArgs
    /\ spawns = <<>>
    /\ attempts = 0

NextLayers ==
    \/ AddSpawnsToTmx
    \/ AddObjectivesToTmx

\* Any sequence of runs of add_enemy_spawns.py and add_objectives.py on a
\* generated map.
SpecLayers == InitLayers /\ [][NextLayers]_vars

----------------------------------------------------------------------------
(* Vocabulary of the properties, stated on the tiles' edge labels *)

\* The tile of the catalog with identifier tid (used on the catalogs of
\* Catalogs, whose identifiers are unique).
TileOf(tid) == tiles[CHOOSE i \in 1..Len(tiles) : tiles[i].id = tid]

\* Tile b may stand east of tile a / south of tile a.
EastOk(a, b) == TileOf(a).edges.east = TileOf(b).edges.west
SouthOk(a, b) == TileOf(a).edges.south = TileOf(b).edges.north

\* g (rows of tile ids, h rows of w entries) has no incompatible pair of
\* horizontally or vertically adjacent cells.
ValidGrid(g, w, h) ==
    \A y \in 1..h : \A x \in 1..w :
        /\ (x < w => EastOk(g[y][x], g[y][x + 1]))
        /\ (y < h => SouthOk(g[y][x], g[y + 1][x]))

\* Some assignment of catalog tiles to the w x h grid is valid.
Satisfiable(w, h) ==
    \E g \in [1..h -> [1..w -> TileIds(tiles)]] : ValidGrid(g, w, h)

GridIds == {grid[y][x] : y \in 1..Len(grid), x \in 1..width}

PairedWith(d) ==
    CASE d = "north" -> "south"
      [] d = "south" -> "north"
      [] d = "east" -> "west"
      [] d = "west" -> "east"

IsPrefix(s, t) ==
    /\ Len(s) <= Len(t)
    /\ \A i \in 1..Len(s) : s[i] = t[i]

----------------------------------------------------------------------------
(* Properties *)

\* C1: whenever generate returns a grid, every in-bounds pair of horizontally
\* or vertically adjacent cells is compatible: the east edge of grid[y][x]
\* equals the west edge of grid[y][x+1], and the south edge of grid[y][x]
\* equals the north edge of grid[y+1][x].
C1_AdjacentCellsCompatible ==
    returned = "grid" => ValidGrid(grid, width, height)

\* C1 witness: a 2 x 2 grid holding two different tiles was returned.
C1_Witness ==
    /\ returned = "grid"
    /\ width = 2 /\ height = 2
    /\ Cardinality(GridIds) >= 2

\* C2: a returned grid has exactly height rows of exactly width entries, and
\* each entry is a tile id of the loaded catalog, the sole element of the
\* cell's final possibility set.
C2_GridShapeAndEntries ==
    returned = "grid" =>
        /\ Len(grid) = height
        /\ \A y \in 1..height :
              /\ Len(grid[y]) = width
              /\ \A x \in 1..width :
                    /\ grid[y][x] \in TileIds(tiles)
                    /\ possibilities[y][x] = {grid[y][x]}

\* C2 witness: a grid of more than one row and more than one column.
C2_Witness ==
    /\ returned = "grid"
    /\ width = 2 /\ height = 2
    /\ Len(tiles) >= 3

\* C3: with the same catalog, width, height and explicit seed, the second
\* call makes the same cell selections and tile choices as the first, and
\* ends with the same grid or the same failure message and location.
C3_SeededRunsAgree ==
    run = 2 =>
        /\ IsPrefix(trace, first.trace)
        /\ (pc = "returned" => Outcome = first)

\* C3 witness: the second call returned a grid of two different tiles after
\* at least three selections.
C3_Witness ==
    /\ run = 2 /\ pc = "returned"
    /\ returned = "grid"
    /\ Len(trace) >= 3
    /\ Cardinality(GridIds) >= 2

\* C4: for a catalog and grid size that admit no valid assignment, the run
\* never leaves the main loop normally: it ends with the Contradiction
\* failure and returns no grid.
C4_UnsatisfiableEndsInContradiction ==
    (pc \in {"after_loop", "returned", "exited"}
       /\ ~Satisfiable(width, height)) =>
        /\ returned = "None"
        /\ message = "Contradiction"
        /\ grid = <<>>

\* C4 witness: a failed run on three cells or more with no valid assignment.
C4_Witness ==
    /\ returned = "None"
    /\ width * height >= 3
    /\ Len(tiles) >= 2
    /\ ~Satisfiable(width, height)

\* C5: the adjacency table is symmetric: B is in rules[A][d] iff A is in
\* rules[B][opposite(d)], north/south and east/west being the opposites.
C5_AdjacencySymmetric ==
    pc = "loaded" =>
        \A a \in TileIds(tiles) : \A b \in TileIds(tiles) :
            \A d \in Directions :
                (b \in adjacency_rules[a][d])
                    <=> (a \in adjacency_rules[b][PairedWith(d)])

\* C5 witness: a table with a one-directional looking pair: B is allowed
\* east of A while A is not allowed east of B.
C5_Witness ==
    /\ pc = "loaded"
    /\ \E a \in TileIds(tiles) : \E b \in TileIds(tiles) :
          /\ b \in adjacency_rules[a]["east"]
          /\ a \notin adjacency_rules[b]["east"]

\* C6: the adjacency table is exactly the label-equality relation: B's id
\* is in rules[A.id][d] iff A.edges[d] = B.edges[opposite(d)], for every
\* ordered pair of tiles (A = B included) and every direction.
C6_AdjacencyIsLabelEquality ==
    pc = "loaded" =>
        /\ DOMAIN adjacency_rules = TileIds(tiles)
        /\ \A i \in 1..Len(tiles) : \A j \in 1..Len(tiles) :
              \A d \in Directions :
                (tiles[j].id \in adjacency_rules[tiles[i].id][d])
                    <=> (tiles[i].edges[d] = tiles[j].edges[PairedWith(d)])

\* C6 witness: a table in which some tile is not allowed next to itself
\* while another tile is allowed there.
C6_Witness ==
    /\ pc = "loaded"
    /\ \E a \in TileIds(tiles) : \E b \in TileIds(tiles) :
          /\ a \notin adjacency_rules[a]["north"]
          /\ b \in adjacency_rules[a]["north"]

\* C7 as stated: with tile A all grass and tile B all water, generate on a
\* 2 x 1 grid fails with Contradiction.
C7_GrassWaterStripFails ==
    (tiles = CatGrassWater /\ width = 2 /\ height = 1
       /\ pc \in {"returned", "exited"}) =>
        /\ returned = "None"
        /\ message = "Contradiction"

\* C7 amended: with tile A all grass and tile B all water, generate on a
\* 2 x 1 grid never fails: it returns a grid whose two cells hold the same
\* tile (each tile is compatible with itself).
C7_GrassWaterStripIsUniform ==
    (tiles = CatGrassWater /\ width = 2 /\ height = 1) =>
        /\ returned # "None"
        /\ (pc \in {"returned", "exited"} =>
              /\ returned = "grid"
              /\ grid \in { << <<0, 0>> >>, << <<1, 1>> >> })

\* C7 witness: the 2 x 1 run of the grass/water catalog returned water, water.
C7_Witness ==
    /\ tiles = CatGrassWater /\ width = 2 /\ height = 1
    /\ returned = "grid"
    /\ grid = << <<1, 1>> >>

\* Every tile of the catalog is compatible with every tile in every
\* direction.
AllCompatible ==
    \A i \in 1..Len(tiles) : \A j \in 1..Len(tiles) : \A d \in Directions :
        tiles[i].edges[d] = tiles[j].edges[PairedWith(d)]

\* C8: with a catalog (of at least one tile) in which every tile is
\* compatible with every tile in every direction, generate never fails and
\* returns a grid holding only ids of that catalog.
C8_AllCompatibleSucceeds ==
    (Len(tiles) >= 1 /\ AllCompatible) =>
        /\ returned # "None"
        /\ (pc \in {"returned", "exited"} =>
              /\ returned = "grid"
              /\ GridIds \subseteq TileIds(tiles))

\* C8 witness: a 2 x 2 grid of an all-compatible catalog holding two
\* different tiles.
C8_Witness ==
    /\ AllCompatible
    /\ returned = "grid"
    /\ width = 2 /\ height = 2
    /\ Cardinality(GridIds) >= 2

\* C9: for any non-empty catalog, generate on a 1 x 1 grid never fails and
\* returns a single catalog tile id, whatever the adjacency rules are.
C9_SingleCellSucceeds ==
    (Len(tiles) >= 1 /\ width = 1 /\ height = 1) =>
        /\ returned # "None"
        /\ (pc \in {"returned", "exited"} =>
              /\ returned = "grid"
              /\ Len(grid) = 1 /\ Len(grid[1]) = 1
              /\ grid[1][1] \in TileIds(tiles))

\* C9 witness: the 1 x 1 grid of the tile that is incompatible with itself.
C9_Witness ==
    /\ tiles = CatSelfIncompatible
    /\ width = 1 /\ height = 1
    /\ returned = "grid"
    /\ grid = << <<0>> >>

\* C10: a failed run surfaces no grid, and the pipelines then exit with
\* status 1 without writing the JSON grid or the TMX file; files are written
\* only after generate returned a grid.
C10_FailureWritesNothing ==
    /\ (returned = "None" => grid = <<>>)
    /\ ((pc = "exited" /\ returned = "None") =>
          exit_status = 1 /\ files = {})
    /\ (files # {} => returned = "grid")

\* C10 witness: a pipeline has exited after a failed run.
C10_Witness ==
    /\ pc = "exited"
    /\ returned = "None"
    /\ message = "Contradiction"

\* The cells of the grid, as (y, x) pairs of 0-based coordinates.
Cells == {yx \in (0..(height - 1)) \X (0..(width - 1)) : possibilities # <<>>}

CollapsedCells == {yx \in Cells : At(collapsed, yx[1], yx[2])}

\* C11: a collapsed cell is never undone or altered: over every step of a
\* run (Select, Collapse, Propagate and the return), a cell whose collapsed
\* flag is true holds exactly one tile id, keeps its flag and keeps its
\* possibility set.
C11_CollapsedCellsFrozen ==
    [][\A yx \in CollapsedCells :
          /\ Cardinality(At(possibilities, yx[1], yx[2])) = 1
          /\ At(collapsed', yx[1], yx[2])
          /\ At(possibilities', yx[1], yx[2])
                = At(possibilities, yx[1], yx[2])]_vars

\* C11 witness: on a 2 x 2 grid a second cell was selected, collapsed and
\* propagated after the first one, and two cells are still unresolved.
C11_Witness ==
    /\ width = 2 /\ height = 2
    /\ Cardinality(CollapsedCells) = 2
    /\ pc = "loop"

\* C12: in every state of a run no unresolved cell holds an empty
\* possibility set; the neighbour whose reduction would be empty keeps its
\* non-empty set, and the run has then ended as a Contradiction failure.
C12_UnresolvedNeverEmpty ==
    /\ \A yx \in Cells \ CollapsedCells :
          At(possibilities, yx[1], yx[2]) # {}
    /\ (empty_at # NoCell =>
          /\ returned = "None"
          /\ message = "Contradiction"
          /\ grid = <<>>)

\* C12 witness: propagation met an empty intersection at an unresolved
\* neighbour of a 2 x 2 grid.
C12_Witness ==
    /\ empty_at # NoCell
    /\ width = 2 /\ height = 2
    /\ ~At(collapsed, empty_at[2], empty_at[1])
    /\ returned = "None"

\* C13: when propagation finds the intersection for a neighbour empty, the
\* run ends as a Contradiction failure whose reported cell is that
\* neighbour, not the cell that was just collapsed.
C13_ReportedCellIsNeighbour ==
    empty_at # NoCell =>
        /\ returned = "None"
        /\ message = "Contradiction"
        /\ failed_at = empty_at

\* C14: if the Select scan meets an unresolved cell whose possibility set
\* is empty, the run ends as a Contradiction failure naming that cell and
\* returns no grid.
C14_EmptyCellAtSelectIsContradiction ==
    \A yx \in Cells \ CollapsedCells :
        (pc \in {"returned", "exited"}
           /\ At(possibilities, yx[1], yx[2]) = {}) =>
            /\ returned = "None"
            /\ message = "Contradiction"
            /\ failed_at \in {<<yx[2], yx[1]>>}

\* C15: the main loop never runs more than width * height * 100 times, and
\* a call that ends with the counter at the cap has failed with the
\* max-iterations message and returned no grid.
C15_IterationCap ==
    /\ iterations <= MaxIterations(width, height)
    /\ ((returned # "none" /\ iterations >= MaxIterations(width, height)) =>
          /\ returned = "None"
          /\ message = "MaxIterations"
          /\ grid = <<>>)

\* C15 witness: a call ended at the cap; the pipeline exited with status 1.
C15_Witness ==
    /\ pc = "exited"
    /\ iterations >= MaxIterations(width, height)
    /\ returned = "None"
    /\ message = "MaxIterations"
    /\ exit_status = 1

\* The constructor failed: no generator object, no adjacency table, no
\* call of generate; the process ended with status 1.
BuildFailed ==
    /\ pc = "exited"
    /\ adjacency_rules = <<>>
    /\ tile_by_id = <<>>
    /\ possibilities = <<>>
    /\ returned = "none"
    /\ exit_status = 1
    /\ files = {}

HasDuplicateIds(ts) ==
    \E i \in 1..Len(ts) : \E j \in 1..Len(ts) : i # j /\ ts[i].id = ts[j].id

HasNonPositiveWeight(ts) == \E i \in 1..Len(ts) : ts[i].weight <= 0

HasMissingLabel(ts) ==
    \E i \in 1..Len(ts) : DOMAIN ts[i].edges # Directions

\* C16: building from tile definitions in which two tiles share an id
\* fails, and no adjacency table is produced for such a catalog.
C16_DuplicateIdsRejected ==
    (HasDuplicateIds(tiles) /\ pc # "start") => BuildFailed

\* C17: building with a tile of zero or negative weight fails at build
\* time, before any generation run can draw with that weight.
C17_NonPositiveWeightRejected ==
    (HasNonPositiveWeight(tiles) /\ pc # "start") => BuildFailed

\* C18: building with a tile that lacks one of the four direction labels
\* fails at build time: the constructor raises, no adjacency table is kept
\* and no generation run takes place.
C18_MissingLabelRejected ==
    (HasMissingLabel(tiles) /\ pc # "start") =>
        /\ BuildFailed
        /\ message = "KeyError"

\* C18 witness: the build of the two-tile catalog whose second tile has no
\* north label has failed.
C18_Witness ==
    /\ tiles = CatMissingNorthLater
    /\ BuildFailed
    /\ message = "KeyError"

\* C19: a seeded run gives the same result (selections, grid or failure)
\* when its steps are interleaved with those of another seeded run as when
\* it runs alone.
C19_InterleavedRunAgrees ==
    (run = 2 /\ pc = "returned" /\ other_run # "idle") => Outcome = first

\* The in-bounds unresolved neighbours of the cell (cx, cy), as
\* (nx, ny, direction) triples.
UnresolvedNeighbors(cx, cy) ==
    LET nbrs == Neighbors(cx, cy)
    IN {nbrs[i] : i \in
          {i \in 1..4 :
              /\ nbrs[i][1] >= 0 /\ nbrs[i][1] < width
              /\ nbrs[i][2] >= 0 /\ nbrs[i][2] < height
              /\ ~At(collapsed, nbrs[i][2], nbrs[i][1])}}

\* Every unresolved neighbour of the cell (cx, cy) holds only tiles that
\* some tile still possible in (cx, cy) allows in its direction.
ArcsConsistentFrom(cx, cy) ==
    \A nb \in UnresolvedNeighbors(cx, cy) :
        At(possibilities, nb[2], nb[1]) \subseteq
            UNION {adjacency_rules[t][nb[3]] :
                      t \in At(possibilities, cy, cx)}

\* _propagate has returned True and control is back at the main loop.
PropagateSucceeded == pc = "loop" /\ iterations > 0

\* C21: when Propagate returns success, for every cell c and every
\* in-bounds unresolved neighbour n of c in direction d, the set of n is a
\* subset of the union of rules[t][d] over the tiles t still possible in c.
C21_FixpointEverywhere ==
    PropagateSucceeded =>
        \A yx \in Cells : ArcsConsistentFrom(yx[2], yx[1])

\* C21 as amended: when Propagate returns success, the same holds for every
\* cell c that is collapsed or whose set has been reduced below the full
\* catalog, that is, for every cell propagation has started from.
C21_FixpointFromChangedCells ==
    PropagateSucceeded =>
        \A yx \in Cells :
            (At(collapsed, yx[1], yx[2])
               \/ At(possibilities, yx[1], yx[2]) # TileIds(tiles)) =>
                ArcsConsistentFrom(yx[2], yx[1])

\* C21 witness: Propagate returned success on a grid where a reduced,
\* unresolved cell has an unresolved neighbour.
C21_Witness ==
    /\ PropagateSucceeded
    /\ \E yx \in Cells \ CollapsedCells :
          /\ At(possibilities, yx[1], yx[2]) # TileIds(tiles)
          /\ UnresolvedNeighbors(yx[2], yx[1]) # {}

\* The stack stk with its i-th entry moved to the top.
MoveToTop(stk, i) ==
    Append(SubSeq(stk, 1, i - 1) \o SubSeq(stk, i + 1, Len(stk)), stk[i])

\* What the caller of Propagate sees: the verdict and, on success, the
\* possibility sets.
Verdict(res) ==
    [ok |-> res.ok,
     possibilities |-> IF res.ok THEN res.possibilities ELSE <<>>]

\* Propagate with a first-in, first-out worklist.
RECURSIVE PropagateRunFifo(_, _, _, _, _, _)
PropagateRunFifo(poss, coll, stk, rules, w, h) ==
    IF stk = <<>> THEN [ok |-> TRUE, possibilities |-> poss]
    ELSE LET st == PropagatePop(poss, coll, MoveToTop(stk, 1), rules, w, h)
         IN IF ~st.ok THEN [ok |-> FALSE, possibilities |-> st.possibilities]
            ELSE PropagateRunFifo(st.possibilities, coll, st.stack, rules, w, h)

\* The verdicts of Propagate over every order in which the pending cells
\* of the worklist can be taken.
RECURSIVE AnyOrderVerdicts(_, _, _, _, _, _)
AnyOrderVerdicts(poss, coll, stk, rules, w, h) ==
    IF stk = <<>> THEN {[ok |-> TRUE, possibilities |-> poss]}
    ELSE UNION {LET st == PropagatePop(poss, coll, MoveToTop(stk, i),
                                       rules, w, h)
                IN IF ~st.ok THEN {[ok |-> FALSE, possibilities |-> <<>>]}
                   ELSE AnyOrderVerdicts(st.possibilities, coll, st.stack,
                                         rules, w, h) :
                i \in 1..Len(stk)}

\* generate is about to call _propagate for the cell it has just collapsed.
PropagateEntry == pc = "propagate" /\ stack = << cur >>

\* C22: from the pre-state of every call of Propagate, taking the pending
\* cells last-in first-out (as the code does), first-in first-out or in any
\* other order gives the same verdict and, on success, the same
\* possibility set for every cell.
C22_WorklistOrderIrrelevant ==
    PropagateEntry =>
        LET lifo == PropagateRun(possibilities, collapsed, stack,
                                 adjacency_rules, width, height)
            fifo == PropagateRunFifo(possibilities, collapsed, stack,
                                     adjacency_rules, width, height)
        IN /\ Verdict(fifo) = Verdict(lifo)
           /\ AnyOrderVerdicts(possibilities, collapsed, stack,
                               adjacency_rules, width, height)
                 = {Verdict(lifo)}

\* C22 witness: a call of Propagate on a 2 x 2 grid during which two cells
\* are pending at once.
C22_Witness ==
    /\ pc = "propagate"
    /\ width = 2 /\ height = 2
    /\ Len(stack) >= 2

NthDraw(i) == RngOutput(RngAfter(rng.state, i - 1))

\* The unresolved cells in row-major order (y outer, x inner), as (y, x).
UnresolvedRowMajor ==
    LET idx == SetToList({yx[1] * width + yx[2] :
                             yx \in Cells \ CollapsedCells})
    IN [i \in 1..Len(idx) |-> <<idx[i] \div width, idx[i] % width>>]

\* The count of the i-th unresolved cell with the i-th draw as its noise.
NoisyCount(u, i) ==
    EntropyWithNoise(Cardinality(At(possibilities, u[i][1], u[i][2])),
                     NthDraw(i))

\* C24: in each Select-Collapse cycle of a seeded run the generator is
\* consumed in a fixed order: the i-th draw is the tie-break noise of the
\* i-th unresolved cell in row-major order, the draw after the last of
\* them decides the weighted collapse of the selected cell, the generator
\* has then advanced by exactly that many draws, and Propagate draws
\* nothing.
C24_DrawOrder ==
    [][/\ (pc = "loop" /\ pc' = "propagate") =>
             LET u == UnresolvedRowMajor
                 k == Len(u)
                 sel == CHOOSE i \in 1..k :
                           /\ \A j \in 1..k : NoisyCount(u, i) <= NoisyCount(u, j)
                           /\ \A j \in 1..(i - 1) :
                                 NoisyCount(u, j) > NoisyCount(u, i)
             IN /\ cur' = <<u[sel][2], u[sel][1]>>
                /\ At(possibilities', u[sel][1], u[sel][2])
                      = {CollapseCell(tile_by_id,
                                      At(possibilities, u[sel][1], u[sel][2]),
                                      NthDraw(k + 1))}
                /\ rng' = [rng EXCEPT !.state = RngAfter(rng.state, k + 1)]
       /\ (pc = "propagate" => rng' = rng)]_vars

\* C24 witness: in a seeded run on a 2 x 2 grid a cell other than the
\* first in row-major order has been selected and collapsed while other
\* cells were unresolved.
C24_Witness ==
    /\ rng.seeded
    /\ PropagateEntry
    /\ width = 2 /\ height = 2
    /\ cur \notin {<<0, 0>>}
    /\ Cardinality(CollapsedCells) <= 2

\* What a run on width, height >= 1 and a non-empty catalog keeps true: the
\* iterations made so far are the cells collapsed so far, at most one per
\* cell; a returned grid took exactly width * height iterations; the cap is
\* never the reason the run ended.
OneCollapsePerIteration ==
    /\ (possibilities # <<>> => iterations = Cardinality(CollapsedCells))
    /\ iterations <= width * height
    /\ (returned = "grid" => iterations = width * height)
    /\ message # "MaxIterations"

\* The tiles still possible in the first n cells (row-major), plus one for
\* each of these cells that is unresolved.
RECURSIVE Workload(_)
Workload(n) ==
    IF n = 0 THEN 0
    ELSE LET y == (n - 1) \div width
             x == (n - 1) % width
         IN Workload(n - 1) + Cardinality(At(possibilities, y, x))
               + (IF At(collapsed, y, x) THEN 0 ELSE 1)

\* A natural number that every step of a run makes smaller: the position
\* in the pipeline first, then the work left in the main loop.
Rank ==
    LET big == 8 * (width * height * (Len(tiles) + 1) + 1)
        phase == CASE pc = "start" -> 5
                   [] pc = "loaded" -> 4
                   [] pc \in {"loop", "propagate"} -> 3
                   [] pc = "after_loop" -> 2
                   [] pc = "returned" -> 1
                   [] pc = "exited" -> 0
        work == IF pc \in {"loop", "propagate"}
                THEN 4 * Workload(width * height) + 2 * Len(stack)
                        + (IF pc = "propagate" THEN 1 ELSE 0)
                ELSE 0
    IN phase * big + work

\* Some step of the pipeline is possible: in the main loop the guards of
\* `while not self._is_fully_collapsed() and iterations < max_iterations`
\* decide between another iteration and leaving the loop.
CanStep ==
    \/ ENABLED Load
    \/ ENABLED GenerateStart
    \/ /\ pc = "loop"
       /\ ~IsFullyCollapsed(collapsed)
       /\ iterations < MaxIterations(width, height)
       /\ DrawSeqs(rng, Cardinality(Unresolved(collapsed)) + 1) # {}
    \/ ENABLED PropagateStep
    \/ ENABLED PropagateReturn
    \/ ENABLED LoopExit
    \/ ENABLED Finish
    \/ ENABLED WfcGeneratorMain
    \/ ENABLED GenerateMapMain

\* C25: for width, height >= 1 and a non-empty catalog every run of
\* generate terminates: every step makes the natural number Rank smaller
\* and a step is possible until the pipeline has exited.  Each iteration
\* collapses exactly one previously unresolved cell and propagation marks
\* none, so at most width * height iterations run, exactly width * height
\* in a successful run, and the cap never ends a run.
C25_RunsTerminate ==
    /\ []((width >= 1 /\ height >= 1 /\ Len(tiles) >= 1) =>
            /\ OneCollapsePerIteration
            /\ (pc # "exited" => CanStep))
    /\ [][(width >= 1 /\ height >= 1 /\ Len(tiles) >= 1) =>
            /\ Rank' < Rank
            /\ Rank' >= 0
            /\ (pc = "propagate" => collapsed' = collapsed)]_vars

\* C25 witness: a successful run on a 2 x 2 grid has exited after four
\* iterations.
C25_Witness ==
    /\ pc = "exited"
    /\ returned = "grid"
    /\ width = 2 /\ height = 2
    /\ iterations = 4

\* The valid completions of possibility sets poss: the grids of catalog
\* tiles without an incompatible adjacent pair that give every cell one of
\* the tiles still possible in it.
Completions(poss) ==
    {g \in [1..height -> [1..width -> TileIds(tiles)]] :
        /\ ValidGrid(g, width, height)
        /\ \A y \in 1..height : \A x \in 1..width : g[y][x] \in poss[y][x]}

\* The valid grids that agree with the cells collapsed so far.
CompletionsOfCollapses ==
    {g \in [1..height -> [1..width -> TileIds(tiles)]] :
        /\ ValidGrid(g, width, height)
        /\ \A y \in 1..height : \A x \in 1..width :
              collapsed[y][x] => g[y][x] \in possibilities[y][x]}

\* C26: Propagate is sound.  A turn of its loop removes a tile from a cell
\* only if no valid completion of the current possibility sets has that
\* tile there, so the valid completions are the same before and after the
\* turn; when it reports a contradiction, the possibility sets, and the
\* collapses made so far, have no valid completion.
C26_PropagateSound ==
    [][(pc = "propagate" /\ stack # <<>>) =>
          /\ \A y \in 1..height : \A x \in 1..width :
                \A t \in possibilities[y][x] \ possibilities'[y][x] :
                    \A g \in Completions(possibilities) : g[y][x] # t
          /\ (pc' = "propagate" =>
                 Completions(possibilities') = Completions(possibilities))
          /\ (pc' # "propagate" =>
                 /\ message' = "Contradiction"
                 /\ Completions(possibilities) = {}
                 /\ CompletionsOfCollapses = {})]_vars

\* C26 witness: Propagate has removed tiles from an unresolved cell, has
\* turns left, and the grid can still be completed.
C26_Witness ==
    /\ pc = "propagate"
    /\ stack # <<>>
    /\ \E yx \in Cells \ CollapsedCells :
          At(possibilities, yx[1], yx[2]) # TileIds(tiles)
    /\ Completions(possibilities) # {}

\* C27: throughout a run every cell's possibility set only shrinks: after
\* a Collapse or Propagate step each cell's set is a subset of its value
\* before the step and of the catalog's ids; no step adds a tile id.
C27_SetsOnlyShrink ==
    [][(pc = "loop" \/ pc = "propagate") =>
          (\A y \in 1..height : \A x \in 1..width :
              (/\ possibilities'[y][x] \subseteq possibilities[y][x]
               /\ possibilities'[y][x] \subseteq TileIds(tiles)))]_vars

\* C27 witness: a collapse has shrunk one cell to a single tile and
\* propagation has shrunk another, which still holds several tiles.
C27_Witness ==
    /\ pc = "loop"
    /\ \E yx \in Cells \ CollapsedCells :
          /\ At(possibilities, yx[1], yx[2]) # TileIds(tiles)
          /\ Cardinality(At(possibilities, yx[1], yx[2])) >= 2
    /\ CollapsedCells # {}

\* C28: the solver never backtracks.  A run that has reported a
\* contradiction returns None and changes no cell afterwards; its
\* collapses admit no valid grid, whether or not the catalog and the grid
\* size admit one, so a failure does not imply that no valid grid exists.
C28_FailureIsFinal ==
    /\ [](message = "Contradiction" =>
            /\ returned = "None"
            /\ grid = <<>>
            /\ CollapsedCells # {}
            /\ CompletionsOfCollapses = {})
    /\ [][(message = "Contradiction") =>
            /\ possibilities' = possibilities
            /\ collapsed' = collapsed
            /\ iterations' = iterations
            /\ message' = message]_vars

\* C28 witness: a run has ended in a contradiction although some assignment
\* of the catalog's tiles to the grid is fully compatible.
C28_Witness ==
    /\ pc = "exited"
    /\ returned = "None"
    /\ message = "Contradiction"
    /\ Satisfiable(width, height)

\* The fields of the character list s between the occurrences of sep.
RECURSIVE SplitOn(_, _)
SplitOn(s, sep) ==
    IF \A i \in 1..Len(s) : s[i] # sep THEN <<s>>
    ELSE LET k == CHOOSE i \in 1..Len(s) :
                     s[i] = sep /\ \A j \in 1..(i - 1) : s[j] # sep
         IN <<SubSeq(s, 1, k - 1)>> \o SplitOn(SubSeq(s, k + 1, Len(s)), sep)

\* The number a list of decimal digits denotes.
RECURSIVE ParseInt(_)
ParseInt(s) ==
    IF Len(s) = 0 THEN 0
    ELSE 10 * ParseInt(SubSeq(s, 1, Len(s) - 1))
            + (CHOOSE d \in 0..9 : Digits[d + 1] = s[Len(s)])

IsNumber(s) == Len(s) >= 1 /\ \A i \in 1..Len(s) : \E d \in 0..9 : Digits[d + 1] = s[i]

\* The lines of the Ground layer's CSV text, without the newline that
\* opens it and the one that closes it.
CsvTextLines ==
    LET all == SplitOn(tmx.layer.text, "\n")
    IN SubSeq(all, 2, Len(all) - 1)

\* The values on a CSV line; the comma that ends every line but the last
\* is followed by no value.
NonEmpty(s) == s # <<>>
CsvValues(line) == SelectSeq(SplitOn(line, ","), NonEmpty)

\* C29: the map generate_tmx writes has width and height attributes equal
\* to the grid's column and row counts, and its Ground layer CSV has one
\* line per grid row, in row order, the values of a line being the row's
\* tile ids plus the tileset's firstgid (1 when not configured), in column
\* order.
C29_TmxMatchesGrid ==
    tmx # NoTmx =>
        LET firstgid == IF "firstgid" \in DOMAIN tileset_info
                        THEN tileset_info.firstgid ELSE 1
        IN /\ IsNumber(tmx.width) /\ ParseInt(tmx.width) = Len(grid[1])
           /\ IsNumber(tmx.height) /\ ParseInt(tmx.height) = Len(grid)
           /\ tmx.layer.name = "Ground"
           /\ Len(tmx.layer.text) >= 2
           /\ Head(tmx.layer.text) = "\n"
           /\ tmx.layer.text[Len(tmx.layer.text)] = "\n"
           /\ Len(CsvTextLines) = Len(grid)
           /\ \A y \in 1..Len(grid) :
                 LET values == CsvValues(CsvTextLines[y])
                 IN /\ Len(values) = Len(grid[y])
                    /\ \A x \in 1..Len(grid[y]) :
                          /\ IsNumber(values[x])
                          /\ ParseInt(values[x]) = grid[y][x] + firstgid

\* C29 witness: a map of two rows and two columns was written with a
\* configured firstgid of 101 and holds two different tile ids.
C29_Witness ==
    /\ tmx # NoTmx
    /\ Len(grid) = 2 /\ Len(grid[1]) = 2
    /\ grid[1][1] # grid[2][2]
    /\ "firstgid" \in DOMAIN tileset_info
    /\ tileset_info.firstgid = 101

\* C30: every two distinct points of generate_spawn_points and of
\* generate_objective_points are at least min_distance apart in world
\* units, and every point is the world position of an integer tile of
\* [edge_margin, width - edge_margin - 1] x
\* [edge_margin, height - edge_margin - 1].
C30_PointsApartAndInside ==
    sample_args # NoArgs =>
        /\ \A i \in 1..Len(spawns) : \A j \in 1..Len(spawns) :
              PointOf(spawns[i]) # PointOf(spawns[j]) =>
                  DistanceSquared(PointOf(spawns[i]), PointOf(spawns[j]))
                      >= 64 * sample_args.min_distance
                            * sample_args.min_distance
        /\ \A i \in 1..Len(spawns) :
              \E tile_x \in sample_args.edge_margin
                              ..(sample_args.width
                                    - sample_args.edge_margin - 1),
                 tile_y \in sample_args.edge_margin
                              ..(sample_args.height
                                    - sample_args.edge_margin - 1) :
                 /\ spawns[i].x8 =
                       4 * (tile_x - tile_y) * sample_args.tile_width
                         - 2 * (sample_args.width - sample_args.height)
                             * sample_args.tile_width
                 /\ spawns[i].y8 =
                       2 * (tile_x + tile_y) * sample_args.tile_height
                         - (sample_args.width + sample_args.height - 2)
                             * sample_args.tile_height

\* C30 witness: a sampler has returned two points for a min_distance of 3
\* on the inner tiles of the 4 x 4 map.
C30_Witness ==
    /\ pc = "sample_done"
    /\ returned = "points"
    /\ Len(spawns) = 2
    /\ sample_args.min_distance = 3
    /\ sample_args.edge_margin = 1

\* The ids of the layers and object groups of the map document, in
\* document order.
LayerIds ==
    <<tmx.layer.id>>
        \o [i \in 1..Len(tmx.objectgroups) |-> tmx.objectgroups[i].id]

\* C31: after any sequence of add_spawns_to_tmx and add_objectives_to_tmx
\* runs on a generated map, whose Ground layer has id 1, the ids of the
\* map's layers and object groups are pairwise distinct.
C31_LayerIdsDistinct ==
    (tmx # NoTmx /\ tmx.layer.id = <<"1">>) =>
        \A i \in 1..Len(LayerIds) : \A j \in 1..Len(LayerIds) :
            i # j => LayerIds[i] # LayerIds[j]

\* The attempts a sampler may make for its arguments: 50 per requested
\* spawn, 100 per requested objective.
AttemptLimit ==
    IF sample_args.kind = "spawns" THEN sample_args.num * 50
    ELSE sample_args.num * 100

\* A natural number that every step of a sampler makes smaller: the
\* position in the function first, then the attempts left.
SampleRank ==
    CASE pc = "sample_start" -> AttemptLimit + 2
      [] pc = "sample_loop" -> (AttemptLimit - attempts) + 1
      [] pc = "sample_done" -> 0

\* C32: the rejection-sampling loops always terminate: every step makes
\* the natural number SampleRank smaller and a step is possible until the
\* function has returned or raised.  generate_spawn_points makes at most
\* num_spawns * 50 attempts and generate_objective_points at most
\* num_objectives * 100; each returns at most the requested number of
\* points, and fewer only when the attempts have run out.
C32_SamplersTerminate ==
    /\ [](sample_args # NoArgs =>
            /\ attempts <= AttemptLimit
            /\ Len(spawns) <= sample_args.num
            /\ Len(spawns) <= attempts
            /\ (pc # "sample_done" => ENABLED NextSample)
            /\ ((pc = "sample_done" /\ returned = "points"
                    /\ Len(spawns) < sample_args.num) =>
                   attempts = AttemptLimit))
    /\ [][(sample_args # NoArgs) =>
            (SampleRank' < SampleRank /\ SampleRank' >= 0)]_vars

\* C32 witness: generate_spawn_points was asked for two spawns and has
\* returned one, after 100 attempts.
C32_Witness ==
    /\ pc = "sample_done"
    /\ returned = "points"
    /\ sample_args.kind = "spawns"
    /\ sample_args.num = 2
    /\ Len(spawns) = 1
    /\ attempts = 100

====
